---- MODULE Spec2Model ----
(***************************************************************************)
(* Session workflow engine of the conversational data-cleaning assistant.  *)
(*                                                                         *)
(* The implementations of the engine are modelled side by side:            *)
(*   engine = "model"    DataLLM/model.py, driven by the LangGraph graph   *)
(*                       that build_graph() compiles and main() streams;   *)
(*   engine = "backend"  customAI/backend.py, driven by the HTTP upload    *)
(*                       and the websocket handler of customAI/api.py;     *)
(*   engine = "gptcode"  DataLLM/Gptcode.py, the tool-calling variant      *)
(*                       (SpecGpt).                                        *)
(* SpecPeers and SpecSessions run api.py with two websocket handlers, on   *)
(* one session and on two sessions; SpecDeadline adds a Code Runner call   *)
(* that does not return.                                                   *)
(*                                                                         *)
(* Texts typed by the user are sequences of one-character strings, so that *)
(* strip(), lower(), "in", startswith(), split() and the file-name regex   *)
(* are computed as the code computes them.  Texts produced by the engine   *)
(* are sequences of string fragments.  A store key (uuid4) is the position *)
(* of its entry in the store; the empty string "" is NoId.                 *)
(***************************************************************************)
EXTENDS Integers, Sequences, FiniteSets, TLC

VARIABLES
    engine,     \* which implementation this behaviour is a run of
    state,      \* the AgentState record threaded through the nodes
    db,         \* store._db : key -> parquet bytes (key k is db[k])
    pc,         \* the driver's position (graph node to run / adapter phase)
    fs,         \* the file the last step wrote with df.to_csv, if any
    sessions,   \* api.py's registry: session id -> {work_id, raw_id}
    sent,       \* websocket messages sent by the last adapter step
    last,       \* label of the last step taken (node, outcome, input)
    turn,       \* bookkeeping of the Execute attempts of the current request
    lineage,    \* bookkeeping of the last steps that touched the dataset
    conns,      \* api.py with several websockets: each handler's local state
    loop,       \* the handler the asyncio event loop is running (0: none)
    quota       \* the user messages a behaviour may still read, if limited

vars == <<engine, state, db, pc, fs, sessions, sent, last, turn, lineage,
          conns, loop, quota>>

\* ------------------------------------------------------------------------
\* Bounds of the model
\* ------------------------------------------------------------------------
MaxKeys == 3            \* store entries created in one behaviour
MaxHist == 2            \* undo entries on the stack
MaxRows == 2            \* row counts a dataframe can have
MaxRetryCount == 4      \* cap of retry_count (the code has none)
MaxChats == 2           \* chat messages two concurrent handlers receive in all
MaxTurns == 2           \* user messages read in a behaviour of SpecLoop

\* ------------------------------------------------------------------------
\* Program constants
\* ------------------------------------------------------------------------
MAX_RETRIES == 3
NoId == 0               \* the empty handle ""
DescLen == 60           \* content[:60] in the undo description
None == "<None>"

Min(S) == CHOOSE x \in S : \A y \in S : x <= y
Max(S) == CHOOSE x \in S : \A y \in S : x >= y

\* ------------------------------------------------------------------------
\* str methods used by the input parsers
\* ------------------------------------------------------------------------
UpperChars == <<"A","B","C","D","E","F","G","H","I","J","K","L","M",
                "N","O","P","Q","R","S","T","U","V","W","X","Y","Z">>
LowerChars == <<"a","b","c","d","e","f","g","h","i","j","k","l","m",
                "n","o","p","q","r","s","t","u","v","w","x","y","z">>
Digits == {"0","1","2","3","4","5","6","7","8","9"}

UpperSet == {UpperChars[i] : i \in 1..26}
LowerMap == [c \in UpperSet |-> LowerChars[CHOOSE i \in 1..26 : UpperChars[i] = c]]

LowerChar(c) == IF c \in UpperSet THEN LowerMap[c] ELSE c

\* str.lower()
Lower(s) == [i \in 1..Len(s) |-> LowerChar(s[i])]

\* str.strip()
Strip(s) ==
    LET keep == {i \in 1..Len(s) : s[i] # " "}
    IN  IF keep = {} THEN <<>> ELSE SubSeq(s, Min(keep), Max(keep))

\* sub in s
Contains(s, sub) ==
    \E i \in 1..(Len(s) - Len(sub) + 1) : SubSeq(s, i, i + Len(sub) - 1) = sub

\* s.startswith(p)
StartsWith(s, p) == Len(s) >= Len(p) /\ SubSeq(s, 1, Len(p)) = p

\* s.split(maxsplit=1): the first word and, when there is one, the rest
SplitOnce(s) ==
    LET t      == Strip(s)
        spaces == {i \in 1..Len(t) : t[i] = " "}
    IN  IF t = <<>> THEN <<>>
        ELSE IF spaces = {} THEN <<t>>
        ELSE LET sp   == Min(spaces)
                 rest == {i \in (sp + 1)..Len(t) : t[i] # " "}
             IN  <<SubSeq(t, 1, sp - 1), SubSeq(t, Min(rest), Len(t))>>

\* \w
WordChars == UpperSet \cup {LowerChars[i] : i \in 1..26} \cup Digits \cup {"_"}
IsWord(c) == c \in WordChars

DotCsv == <<".", "c", "s", "v">>

\* re.search(r'\b(\w+\.csv)\b', msg, re.I).group(1), <<>> when nothing
\* matches.  A match is a whole run of word characters (\b before it, and
\* the "." after it ends the run) followed by ".csv" and a word boundary;
\* search returns the leftmost one.
CsvEnds(s) ==
    {j \in 1..(Len(s) - 4) :
        /\ IsWord(s[j])
        /\ Lower(SubSeq(s, j + 1, j + 4)) = DotCsv
        /\ (j + 4 = Len(s) \/ ~IsWord(s[j + 5]))}

WordStart(s, j) == Min({i \in 1..j : \A k \in i..j : IsWord(s[k])})

CsvSearch(s) ==
    IF CsvEnds(s) = {} THEN <<>>
    ELSE LET j == Min(CsvEnds(s))
         IN  SubSeq(s, WordStart(s, j), j + 4)

\* ------------------------------------------------------------------------
\* Dataframes, parquet bytes and the store (MemStore)
\* ------------------------------------------------------------------------
\* A dataframe is its row count and the kind of index it carries; the bytes
\* written with index=False keep the rows only.
DataFrames == [rows : 1..MaxRows, index : {"range", "custom"}]

\* df.to_parquet(buf, index=False); buf.getvalue()
to_parquet(df) == [magic |-> "PAR1", rows |-> df.rows]

\* pd.read_parquet(io.BytesIO(blob))
read_parquet(blob) == [rows |-> blob.rows, index |-> "range"]

\* pd.read_csv(...) of an uploaded file with n rows
read_csv(n) == [rows |-> n, index |-> "range"]

\* key in store._db
HasKey(d, key) == key \in 1..Len(d)

\* a store that keeps its newest entry under one key (key = "current")
write_df_reuse(d, df) ==
    IF d = <<>>
    THEN [db |-> <<to_parquet(df)>>, key |-> 1]
    ELSE [db |-> [d EXCEPT ![Len(d)] = to_parquet(df)], key |-> Len(d)]

\* MemStore.write_df: a fresh uuid4 key, the parquet bytes stored under it
write_df(d, df) == [db |-> Append(d, to_parquet(df)), key |-> Len(d) + 1]

\* MemStore.get_df (defined when HasKey; a KeyError otherwise)
get_df(d, key) == read_parquet(d[key])

\* ------------------------------------------------------------------------
\* AgentState
\* ------------------------------------------------------------------------
DefaultFilename == <<"c","l","e","a","n","e","d",".","c","s","v">>

\* AgentState()
NewAgentState ==
    [raw_id |-> NoId, work_id |-> NoId, history |-> <<>>,
     next_node |-> "upload", user_message |-> <<>>, error |-> None,
     export_filename |-> DefaultFilename, retry_count |-> 0]

\* f"Code: {content[:60]}..."
UndoDesc(content) ==
    <<"Code: ">> \o SubSeq(content, 1, Min({DescLen, Len(content)})) \o <<"...">>

\* push_undo that skips an entry whose snapshot the top of the stack
\* already holds
push_undo_dedup(st, d, desc) ==
    IF st.work_id # NoId /\ HasKey(d, st.work_id)
       /\ (st.history = <<>> \/ st.history[Len(st.history)].snapshot # d[st.work_id])
    THEN [st EXCEPT !.history =
            Append(@, [description |-> desc, snapshot |-> d[st.work_id]])]
    ELSE st

\* AgentState.push_undo
push_undo(st, d, desc) ==
    IF st.work_id # NoId /\ HasKey(d, st.work_id)
    THEN [st EXCEPT !.history =
            Append(@, [description |-> desc, snapshot |-> d[st.work_id]])]
    ELSE st

\* undo that pops the entry but stores the current bytes of work_id
\* (store._db[key] = store._db[self.work_id])
undo_stores_current(st, d) ==
    IF st.history = <<>>
    THEN [st |-> st, db |-> d, ret |-> <<"Nothing to undo.">>]
    ELSE LET entry == st.history[Len(st.history)]
             key   == Len(d) + 1
         IN  [st  |-> [st EXCEPT !.history = SubSeq(@, 1, Len(@) - 1),
                                 !.work_id = key],
              db  |-> Append(d, d[st.work_id]),
              ret |-> <<"Undone: ">> \o entry.description]

\* undo that falls back to the uploaded dataset when the stack is empty
undo_resets_when_empty(st, d) ==
    IF st.history = <<>>
    THEN [st |-> [st EXCEPT !.work_id = st.raw_id], db |-> d,
          ret |-> <<"Nothing to undo.">>]
    ELSE LET entry == st.history[Len(st.history)]
             key   == Len(d) + 1
         IN  [st  |-> [st EXCEPT !.history = SubSeq(@, 1, Len(@) - 1),
                                 !.work_id = key],
              db  |-> Append(d, entry.snapshot),
              ret |-> <<"Undone: ">> \o entry.description]

\* undo that writes the popped snapshot over the entry of work_id
\* (store._db[self.work_id] = entry.snapshot)
undo_in_place(st, d) ==
    IF st.history = <<>>
    THEN [st |-> st, db |-> d, ret |-> <<"Nothing to undo.">>]
    ELSE LET entry == st.history[Len(st.history)]
         IN  [st  |-> [st EXCEPT !.history = SubSeq(@, 1, Len(@) - 1)],
              db  |-> [d EXCEPT ![st.work_id] = entry.snapshot],
              ret |-> <<"Undone: ">> \o entry.description]

\* undo that hands out the new key without storing the snapshot under it
\* (self.work_id = key, with no store._db[key] = entry.snapshot)
undo_without_store(st, d) ==
    IF st.history = <<>>
    THEN [st |-> st, db |-> d, ret |-> <<"Nothing to undo.">>]
    ELSE LET entry == st.history[Len(st.history)]
             key   == Len(d) + 1
         IN  [st  |-> [st EXCEPT !.history = SubSeq(@, 1, Len(@) - 1),
                                 !.work_id = key],
              db  |-> d,
              ret |-> <<"Undone: ">> \o entry.description]

\* undo that takes the oldest entry of the stack (history.pop(0))
undo_oldest_first(st, d) ==
    IF st.history = <<>>
    THEN [st |-> st, db |-> d, ret |-> <<"Nothing to undo.">>]
    ELSE LET entry == st.history[1]
             key   == Len(d) + 1
         IN  [st  |-> [st EXCEPT !.history = Tail(@), !.work_id = key],
              db  |-> Append(d, entry.snapshot),
              ret |-> <<"Undone: ">> \o entry.description]

\* AgentState.undo: the popped snapshot is stored under a fresh key
undo(st, d) ==
    IF st.history = <<>>
    THEN [st |-> st, db |-> d, ret |-> <<"Nothing to undo.">>]
    ELSE LET entry == st.history[Len(st.history)]
             key   == Len(d) + 1
         IN  [st  |-> [st EXCEPT !.history = SubSeq(@, 1, Len(@) - 1),
                                 !.work_id = key],
              db  |-> Append(d, entry.snapshot),
              ret |-> <<"Undone: ">> \o entry.description]

\* ------------------------------------------------------------------------
\* Collaborators: what the Proposal Generator and the Code Runner can return
\* ------------------------------------------------------------------------
ShortCode == <<"d", "f">>
Codes     == {ShortCode}
Replies   == {<<"t">>}

\* llm.invoke(...) raises, or returns text that parses to one of the three
\* actions, to no JSON at all, or to an action that is none of the three
LLMOutcomes ==
    [kind : {"raise", "nojson", "unknown"}, content : {<<>>}]
    \cup [kind : {"answer", "clarify"}, content : Replies]
    \cup [kind : {"code"}, content : Codes]

\* exec of the proposed code: a new dataframe, or the input dataframe and an
\* error text (an exception, or no 'df' left in the locals)
\* (for PythonREPLTool also what the code printed).
ExecErrors == {"ValueError: bad"}
Outputs    == {<<>>, <<"out">>}
RunOutcomes(df) ==
    [df : DataFrames, err : {None}, output : Outputs]
    \cup [df : {df}, err : ExecErrors, output : {<<>>}]

ParseErrorText(llm) ==
    CASE llm.kind = "nojson"  -> "No JSON"
      [] llm.kind = "unknown" -> "Unknown action"
      [] llm.kind = "raise"   -> "LLM call failed"
      [] OTHER                -> "KeyError"

\* ------------------------------------------------------------------------
\* Nodes of DataLLM/model.py
\* ------------------------------------------------------------------------
M_upload_node(st, d, n) ==
    LET w == write_df(d, read_csv(n))
    IN  [st |-> [st EXCEPT !.raw_id = w.key, !.work_id = w.key,
                           !.user_message = <<"Loaded">>,
                           !.next_node = "eda"],
         db |-> w.db]

\* get_current_stats
get_current_stats(d, work_id) ==
    IF work_id = NoId THEN <<"No data loaded.">>
    ELSE IF ~HasKey(d, work_id) THEN <<"Stats error: ", "KeyError">>
    ELSE <<"Shape: ", ToString(get_df(d, work_id).rows)>>

\* build_prompt of model.py: the parts of the text that depend on the state
\* (the statistics, the user request, the error and the retry number)
M_build_prompt(st, d) ==
    [stats |-> get_current_stats(d, st.work_id),
     user  |-> st.user_message,
     error |-> IF st.error # None THEN <<"Error: ", st.error>> ELSE <<>>,
     retry |-> IF st.retry_count > 0
               THEN <<"Retry ", ToString(st.retry_count + 1), "/",
                      ToString(MAX_RETRIES)>>
               ELSE <<>>]

M_eda_node(st, d) ==
    [st EXCEPT !.user_message = get_current_stats(d, st.work_id),
               !.next_node = "human_input"]

\* human_input_node with the export test before the undo test
M_human_input_node_export_first(st, line) ==
    LET msg  == Strip(line)
        cmd  == Lower(msg)
        file == CsvSearch(msg)
    IN  IF msg = <<>>
        THEN [st EXCEPT !.user_message = <<"Please enter a valid command.">>]
        ELSE [st EXCEPT
                !.user_message = msg,
                !.error = None,
                !.retry_count = 0,
                !.export_filename = IF file # <<>> THEN file ELSE @,
                !.next_node =
                    IF Contains(cmd, <<"e","x","p","o","r","t">>)
                       \/ Contains(cmd, <<"s","a","v","e">>) THEN "export"
                    ELSE IF Contains(cmd, <<"u","n","d","o">>) THEN "undo"
                    ELSE IF cmd \in {<<"e","x","i","t">>, <<"q","u","i","t">>}
                         THEN "END"
                    ELSE "execute"]

\* human_input_node; line is what input() returned
M_human_input_node(st, line) ==
    LET msg  == Strip(line)
        cmd  == Lower(msg)
        file == CsvSearch(msg)
    IN  IF msg = <<>>
        THEN [st EXCEPT !.user_message = <<"Please enter a valid command.">>]
        ELSE [st EXCEPT
                !.user_message = msg,
                !.error = None,
                !.retry_count = 0,
                !.export_filename = IF file # <<>> THEN file ELSE @,
                !.next_node =
                    IF Contains(cmd, <<"u","n","d","o">>) THEN "undo"
                    ELSE IF Contains(cmd, <<"e","x","p","o","r","t">>)
                            \/ Contains(cmd, <<"s","a","v","e">>) THEN "export"
                    ELSE IF cmd \in {<<"e","x","i","t">>, <<"q","u","i","t">>}
                         THEN "END"
                    ELSE "execute"]

\* an except branch that keeps a count of its own instead of adding to
\* retry_count (parse failures are retried without being counted)
M_parse_failure_uncounted(st, text) ==
    [st EXCEPT !.error = "LLM parsing error: " \o text,
               !.next_node = IF st.retry_count < MAX_RETRIES
                             THEN "execute" ELSE "human_input"]

\* the except branch of execute_node (lines 244-247)
M_parse_failure(st, text) ==
    [st EXCEPT !.error = "LLM parsing error: " \o text,
               !.retry_count = @ + 1,
               !.next_node = IF st.retry_count + 1 < MAX_RETRIES
                             THEN "execute" ELSE "human_input"]

\* the exec_error branch with the undo entry of the failed attempt removed
M_code_failure_rollback(st, err) ==
    IF st.retry_count + 1 >= MAX_RETRIES
    THEN [st EXCEPT !.user_message =
                        <<"Failed after ", ToString(MAX_RETRIES),
                          " attempts. Last error: ", err>>,
                    !.error = None,
                    !.retry_count = 0,
                    !.history = SubSeq(@, 1, Len(@) - 1),
                    !.next_node = "human_input"]
    ELSE [st EXCEPT !.error = err,
                    !.retry_count = @ + 1,
                    !.history = SubSeq(@, 1, Len(@) - 1),
                    !.next_node = "execute"]

\* the exec_error branch of execute_node (lines 225-234)
M_code_failure(st, err) ==
    IF st.retry_count + 1 >= MAX_RETRIES
    THEN [st EXCEPT !.user_message =
                        <<"Failed after ", ToString(MAX_RETRIES),
                          " attempts. Last error: ", err>>,
                    !.error = None,
                    !.retry_count = 0,
                    !.next_node = "human_input"]
    ELSE [st EXCEPT !.error = err,
                    !.retry_count = @ + 1,
                    !.next_node = "execute"]

\* the success branch of execute_node (lines 235-239)
M_code_success(st, d, df, content) ==
    LET w == write_df(d, df)
    IN  [st |-> [st EXCEPT !.work_id = w.key,
                           !.user_message = <<"Success: ">> \o content,
                           !.error = None,
                           !.retry_count = 0,
                           !.next_node = "eda"],
         db |-> w.db]

\* execute_node for a proposal llm (that did not raise) and, for a code
\* proposal, the Code Runner's result run
M_execute_node(st, d, llm, run) ==
    CASE llm.kind = "answer" ->
            [st |-> [st EXCEPT !.user_message = <<"A: ">> \o llm.content,
                               !.error = None, !.retry_count = 0,
                               !.next_node = "human_input"],
             db |-> d]
      [] llm.kind = "clarify" ->
            [st |-> [st EXCEPT !.user_message = <<"Q: ">> \o llm.content,
                               !.error = None, !.retry_count = 0,
                               !.next_node = "human_input"],
             db |-> d]
      [] llm.kind = "code" ->
            LET pushed == push_undo(st, d, UndoDesc(llm.content))
            IN  IF ~HasKey(d, st.work_id)
                THEN [st |-> M_parse_failure(pushed, "KeyError"), db |-> d]
                ELSE IF run.err # None
                THEN [st |-> M_code_failure(pushed, run.err), db |-> d]
                ELSE M_code_success(pushed, d, run.df, llm.content)
      [] OTHER ->
            [st |-> M_parse_failure(st, ParseErrorText(llm)), db |-> d]

M_undo_node(st, d) ==
    LET u == undo(st, d)
    IN  [st |-> [u.st EXCEPT !.user_message = <<"Undo: ">> \o u.ret,
                             !.next_node = "eda"],
         db |-> u.db]

\* export_node; io_ok says whether df.to_csv succeeded
M_export_node(st, d, io_ok) ==
    [st EXCEPT !.user_message =
                   IF HasKey(d, st.work_id) /\ io_ok
                   THEN <<"Saved ">> \o st.export_filename
                   ELSE <<"Export failed">>,
               !.next_node = "human_input"]

\* export that writes the uploaded dataset (store.get_df(state.raw_id))
ExportedFile_raw(st, d, io_ok) ==
    IF HasKey(d, st.raw_id) /\ io_ok
    THEN [name |-> st.export_filename, rows |-> get_df(d, st.raw_id).rows]
    ELSE [name |-> <<>>, rows |-> 0]

\* the file df.to_csv writes
ExportedFile(st, d, io_ok) ==
    IF HasKey(d, st.work_id) /\ io_ok
    THEN [name |-> st.export_filename, rows |-> get_df(d, st.work_id).rows]
    ELSE [name |-> <<>>, rows |-> 0]

\* ------------------------------------------------------------------------
\* Nodes of customAI/backend.py
\* ------------------------------------------------------------------------
B_upload_node(st, d, n) ==
    LET w == write_df(d, read_csv(n))
    IN  [st |-> [st EXCEPT !.raw_id = w.key, !.work_id = w.key,
                           !.user_message =
                               <<"Loaded ", ToString(n), " rows x cols">>,
                           !.next_node = "eda"],
         db |-> w.db]

\* get_stats
get_stats(d, work_id) ==
    IF work_id = NoId THEN <<"No data.">>
    ELSE IF ~HasKey(d, work_id) THEN <<"Stats error: ", "KeyError">>
    ELSE <<"Shape: ", ToString(get_df(d, work_id).rows)>>

\* build_prompt of backend.py
B_build_prompt(st, d) ==
    [stats |-> get_stats(d, st.work_id),
     user  |-> st.user_message,
     error |-> IF st.error # None THEN <<"Error: ", st.error>> ELSE <<>>,
     retry |-> IF st.retry_count # 0
               THEN <<"Retry ", ToString(st.retry_count + 1), "/",
                      ToString(MAX_RETRIES)>>
               ELSE <<>>]

B_eda_node(st, d) ==
    [st EXCEPT !.user_message = get_stats(d, st.work_id),
               !.next_node = "human_input"]

\* human_input_node reads the text the adapter put in state.user_message
B_human_input_node(st) ==
    LET txt   == Strip(st.user_message)
        low   == Lower(txt)
        parts == SplitOnce(txt)
    IN  IF low \in {<<"u","n","d","o">>, <<"/","u","n","d","o">>}
        THEN [st EXCEPT !.next_node = "undo"]
        ELSE IF StartsWith(low, <<"e","x","p","o","r","t">>)
        THEN [st EXCEPT
                !.export_filename =
                    IF Len(parts) > 1 /\ Strip(parts[2]) # <<>>
                    THEN Strip(parts[2]) ELSE @,
                !.next_node = "export"]
        ELSE [st EXCEPT !.next_node = "execute"]

\* the except branch of execute_node (lines 186-189)
B_parse_failure(st, text) ==
    [st EXCEPT !.error = text,
               !.retry_count = @ + 1,
               !.user_message = <<"Error: ", text>>,
               !.next_node = IF st.retry_count + 1 < MAX_RETRIES
                             THEN "execute" ELSE "human_input"]

\* the err branch of execute_node (lines 174-177)
B_code_failure(st, err) ==
    [st EXCEPT !.error = err,
               !.retry_count = @ + 1,
               !.user_message = <<"Error: ", err>>,
               !.next_node = IF st.retry_count + 1 < MAX_RETRIES
                             THEN "execute" ELSE "human_input"]

\* the success branch storing the new key as upload_node does
\* (state.raw_id = store.write_df(...); state.work_id = state.raw_id)
B_code_success_as_upload(st, d, df, output) ==
    LET w == write_df(d, df)
    IN  [st |-> [st EXCEPT !.raw_id = w.key,
                           !.work_id = w.key,
                           !.user_message =
                               IF Strip(output) # <<>>
                               THEN <<"Success", "\n\n">> \o Strip(output)
                               ELSE <<"Success">>,
                           !.error = None,
                           !.retry_count = 0,
                           !.next_node = "eda"],
         db |-> w.db]

\* the success branch of execute_node (lines 178-184)
B_code_success(st, d, df, output) ==
    LET w == write_df(d, df)
    IN  [st |-> [st EXCEPT !.work_id = w.key,
                           !.user_message =
                               IF Strip(output) # <<>>
                               THEN <<"Success", "\n\n">> \o Strip(output)
                               ELSE <<"Success">>,
                           !.error = None,
                           !.retry_count = 0,
                           !.next_node = "eda"],
         db |-> w.db]

\* execute_node taking an undo snapshot before it looks at the action, so
\* that answers and clarifications push an entry as well
B_execute_node_push_first(st, d, llm, run) ==
    LET pushed == push_undo(st, d, UndoDesc(llm.content))
    IN  CASE llm.kind \in {"answer", "clarify"} ->
                [st |-> [pushed EXCEPT !.user_message = llm.content,
                                       !.error = None, !.retry_count = 0,
                                       !.next_node = "human_input"],
                 db |-> d]
          [] llm.kind = "code" ->
                IF ~HasKey(d, st.work_id)
                THEN [st |-> B_parse_failure(pushed, "KeyError"), db |-> d]
                ELSE IF run.err # None
                THEN [st |-> B_code_failure(pushed, run.err), db |-> d]
                ELSE B_code_success(pushed, d, run.df, run.output)
          [] OTHER ->
                [st |-> B_parse_failure(st, ParseErrorText(llm)), db |-> d]

B_execute_node(st, d, llm, run) ==
    CASE llm.kind \in {"answer", "clarify"} ->
            [st |-> [st EXCEPT !.user_message = llm.content,
                               !.error = None, !.retry_count = 0,
                               !.next_node = "human_input"],
             db |-> d]
      [] llm.kind = "code" ->
            LET pushed == push_undo(st, d, UndoDesc(llm.content))
            IN  IF ~HasKey(d, st.work_id)
                THEN [st |-> B_parse_failure(pushed, "KeyError"), db |-> d]
                ELSE IF run.err # None
                THEN [st |-> B_code_failure(pushed, run.err), db |-> d]
                ELSE B_code_success(pushed, d, run.df, run.output)
      [] OTHER ->
            [st |-> B_parse_failure(st, ParseErrorText(llm)), db |-> d]

\* undo_node that leaves next_node as it found it
B_undo_node_no_route(st, d) ==
    LET u == undo(st, d)
    IN  [st |-> [u.st EXCEPT !.user_message = u.ret], db |-> u.db]

B_undo_node(st, d) ==
    LET u == undo(st, d)
    IN  [st |-> [u.st EXCEPT !.user_message = u.ret, !.next_node = "eda"],
         db |-> u.db]

B_export_node(st, d, io_ok) ==
    [st EXCEPT !.user_message =
                   IF HasKey(d, st.work_id) /\ io_ok
                   THEN <<"Saved ">> \o st.export_filename
                   ELSE <<"Export failed">>,
               !.next_node = "human_input"]

\* ------------------------------------------------------------------------
\* Texts a user types
\* ------------------------------------------------------------------------
InEmpty      == <<>>
InUndo       == <<"u","n","d","o">>
InSlashUndo  == <<"/","u","n","d","o">>
InUndoCaps   == <<" ","U","n","d","o"," ">>
InPleaseUndo == <<"p","l","e","a","s","e"," ","u","n","d","o">>
InExport     == <<"e","x","p","o","r","t">>
InExportFile == <<"E","x","p","o","r","t"," ","a",".","c","s","v">>
InSave       == <<"s","a","v","e">>
InQuit       == <<"q","u","i","t">>
InExit       == <<"e","x","i","t">>
InRequest    == <<"d","r","o","p"," ","n","a">>
Inputs == {InEmpty, InUndo, InSlashUndo, InUndoCaps, InPleaseUndo, InExport,
           InExportFile, InSave, InQuit, InExit, InRequest}

\* ------------------------------------------------------------------------
\* Initial state: a fresh AgentState() and an empty store
\* ------------------------------------------------------------------------
NoFile     == [name |-> <<>>, rows |-> 0]
NoBlob     == [magic |-> "", rows |-> 0]
NoSessions == <<>>
SessionId  == 1

\* turn.streak: the number of Execute attempts of the current request when
\* all of them were Code Runner failures (a commit that ends them keeps the
\* count), -1 after any other attempt; turn.work_id: work_id at the request;
\* turn.attempts: the number of execute_node calls made for the request.
NoTurn == [streak |-> 0, work_id |-> NoId, attempts |-> 0]

\* lineage.phase: "committed" after a successful commit, "reverted" after an
\* undo that directly follows it, "other" after any other step that touched
\* work_id or the history; lineage.before: the bytes work_id referred to
\* before that commit; lineage.loaded: the bytes the upload stored.
NoLineage == [phase |-> "other", before |-> NoBlob, loaded |-> NoBlob]

\* quota: whether the number of user messages read is limited, and how many
\* may still be read
NoQuota == [limited |-> FALSE, left |-> 0]
ReadAllowed == quota.limited => quota.left > 0
AfterRead == IF quota.limited THEN [quota EXCEPT !.left = @ - 1] ELSE quota

Init ==
    /\ engine \in {"model", "backend"}
    /\ state = NewAgentState
    /\ db = <<>>
    /\ pc = "upload"
    /\ fs = NoFile
    /\ sessions = NoSessions
    /\ sent = <<>>
    /\ last = [node |-> "init", outcome |-> "", msg |-> <<>>]
    /\ turn = NoTurn
    /\ lineage = NoLineage
    /\ conns = <<>>
    /\ loop = 0
    /\ quota = NoQuota

Step(node, outcome, msg) == [node |-> node, outcome |-> outcome, msg |-> msg]

\* what an execute_node step did, as decided by its collaborators' results
ExecOutcome(st, d, llm, run) ==
    CASE llm.kind \in {"answer", "clarify"} -> llm.kind
      [] llm.kind = "code" /\ HasKey(d, st.work_id) /\ run.err = None -> "commit"
      [] llm.kind = "code" /\ HasKey(d, st.work_id) /\ run.err # None -> "code_fail"
      [] llm.kind = "code" -> "not_found"
      [] OTHER -> "parse_fail"

\* the collaborator results execute_node can see in the current state; the
\* store, the undo stack and retry_count are kept within the model's bounds
ExecInputs ==
    {io \in [llm : LLMOutcomes,
             run : RunOutcomes(IF HasKey(db, state.work_id)
                               THEN get_df(db, state.work_id)
                               ELSE read_csv(1))] :
        /\ io.llm.kind # "code" =>
              io.run = [df |-> IF HasKey(db, state.work_id)
                               THEN get_df(db, state.work_id) ELSE read_csv(1),
                        err |-> "ValueError: bad", output |-> <<>>]
        /\ io.llm.kind = "code" => Len(state.history) < MaxHist
        /\ (io.llm.kind = "code" /\ io.run.err = None) => Len(db) < MaxKeys
        /\ ExecOutcome(state, db, io.llm, io.run)
                 \in {"code_fail", "parse_fail", "not_found"}
              => state.retry_count < MaxRetryCount}

Touch(kind) ==
    CASE kind = "commit" ->
            [lineage EXCEPT !.phase = "committed", !.before = db[state.work_id]]
      [] kind = "undo" /\ lineage.phase = "committed" ->
            [lineage EXCEPT !.phase = "reverted"]
      [] OTHER ->
            [lineage EXCEPT !.phase = "other", !.before = NoBlob]

Loaded(d, key) == [NoLineage EXCEPT !.loaded = d[key]]

NewTurn(st) == [streak |-> 0, work_id |-> st.work_id, attempts |-> 0]

NextTurn(outcome) ==
    [turn EXCEPT !.streak = IF outcome = "code_fail" /\ @ >= 0 THEN @ + 1
                            ELSE IF outcome = "commit" THEN @
                            ELSE -1,
                 !.attempts = @ + 1]

\* ------------------------------------------------------------------------
\* DataLLM/model.py run by main(): graph.stream over the compiled graph
\* ------------------------------------------------------------------------
\* add_conditional_edges("human_input", ...): a next_node outside the map is
\* a KeyError that ends graph.stream ("Fatal error")
M_after_human_input(st) ==
    IF st.next_node \in {"execute", "undo", "export", "END"}
    THEN st.next_node ELSE "crashed"

\* add_conditional_edges("execute", ...)
M_after_execute(st) ==
    IF st.next_node \in {"human_input", "execute", "eda"}
    THEN st.next_node ELSE "crashed"

M_upload ==
    /\ engine = "model" /\ pc = "upload"
    /\ \E n \in 1..MaxRows :
          LET r == M_upload_node(state, db, n)
          IN  /\ state' = r.st
              /\ db' = r.db
    /\ pc' = "eda"
    /\ last' = Step("upload", "", <<>>)
    /\ fs' = NoFile
    /\ lineage' = Loaded(db', state'.raw_id)
    /\ UNCHANGED <<quota, conns, loop, engine, sessions, sent, turn>>

M_eda ==
    /\ engine = "model" /\ pc = "eda"
    /\ state' = M_eda_node(state, db)
    /\ pc' = "human_input"
    /\ last' = Step("eda", "", <<>>)
    /\ fs' = NoFile
    /\ UNCHANGED <<quota, conns, loop, engine, db, sessions, sent, turn, lineage>>

M_human_input ==
    /\ engine = "model" /\ pc = "human_input"
    /\ \E line \in Inputs :
          /\ state' = M_human_input_node(state, line)
          /\ last' = Step("human_input", "", line)
    /\ pc' = M_after_human_input(state')
    /\ turn' = NewTurn(state')
    /\ fs' = NoFile
    /\ ReadAllowed /\ quota' = AfterRead
    /\ UNCHANGED <<conns, loop, engine, db, sessions, sent, lineage>>

M_execute ==
    /\ engine = "model" /\ pc = "execute"
    /\ \E io \in ExecInputs :
          IF io.llm.kind = "raise"
          THEN \* llm.invoke is outside the try: the exception leaves the graph
               /\ pc' = "crashed"
               /\ last' = Step("execute", "raise", <<>>)
               /\ UNCHANGED <<state, db, turn>>
          ELSE LET r == M_execute_node(state, db, io.llm, io.run)
                   o == ExecOutcome(state, db, io.llm, io.run)
               IN  /\ state' = r.st
                   /\ db' = r.db
                   /\ pc' = M_after_execute(r.st)
                   /\ last' = Step("execute", o, <<>>)
                   /\ turn' = NextTurn(o)
    /\ fs' = NoFile
    /\ lineage' = IF last'.outcome \in {"commit", "code_fail"}
                   THEN Touch(last'.outcome) ELSE lineage
    /\ UNCHANGED <<quota, conns, loop, engine, sessions, sent>>

M_undo ==
    /\ engine = "model" /\ pc = "undo"
    /\ state.history # <<>> => Len(db) < MaxKeys
    /\ LET r == M_undo_node(state, db)
       IN  /\ state' = r.st
           /\ db' = r.db
    /\ pc' = "eda"
    /\ last' = Step("undo", IF state.history = <<>> THEN "empty" ELSE "popped", <<>>)
    /\ fs' = NoFile
    /\ lineage' = IF state.history = <<>> THEN lineage ELSE Touch("undo")
    /\ UNCHANGED <<quota, conns, loop, engine, sessions, sent, turn>>

M_export ==
    /\ engine = "model" /\ pc = "export"
    /\ \E io_ok \in BOOLEAN :
          /\ state' = M_export_node(state, db, io_ok)
          /\ fs' = ExportedFile(state, db, io_ok)
          /\ last' = Step("export", IF io_ok THEN "saved" ELSE "failed", <<>>)
    /\ pc' = "human_input"
    /\ UNCHANGED <<quota, conns, loop, engine, db, sessions, sent, turn, lineage>>

\* ------------------------------------------------------------------------
\* customAI/backend.py driven by customAI/api.py
\*   pc = "upload"   no POST /api/upload yet
\*   pc = "connect"  no websocket open for the session
\*   pc = "serve"    inside ws(): at receive_json when state.next_node is
\*                   "human_input", inside the inner while loop otherwise
\* ------------------------------------------------------------------------
Chat(text)     == [type |-> "chat", text |-> text]
Stats(text)    == [type |-> "stats", text |-> text]
ErrorMsg(text) == [type |-> "error", text |-> text]

\* the dataUpdate message; nothing is sent when get_df raises
DataUpdate(d, work_id) ==
    IF HasKey(d, work_id)
    THEN <<[type |-> "dataUpdate", rows |-> get_df(d, work_id).rows]>>
    ELSE <<>>

\* POST /api/upload
A_upload ==
    /\ engine = "backend" /\ pc = "upload"
    /\ \E n \in 1..MaxRows :
          LET r == B_upload_node(NewAgentState, db, n)
          IN  /\ db' = r.db
              /\ sessions' = [sid \in {SessionId} |->
                                [work_id |-> r.st.work_id, raw_id |-> r.st.raw_id]]
    /\ pc' = "connect"
    /\ last' = Step("upload", "", <<>>)
    /\ fs' = NoFile
    /\ lineage' = Loaded(db', sessions'[SessionId].raw_id)
    /\ UNCHANGED <<quota, conns, loop, engine, state, sent, turn>>

\* ws(): accept, look the session up, build the state, first eda
A_connect ==
    /\ engine = "backend" /\ pc = "connect"
    /\ IF SessionId \notin DOMAIN sessions
       THEN /\ sent' = <<ErrorMsg(<<"bad session">>)>>
            /\ last' = Step("connect", "bad session", <<>>)
            /\ UNCHANGED <<state, pc>>
       ELSE LET st0 == [NewAgentState EXCEPT
                            !.work_id = sessions[SessionId].work_id,
                            !.raw_id = sessions[SessionId].raw_id]
                st1 == B_eda_node(st0, db)
            IN  /\ state' = st1
                /\ sent' = <<Stats(st1.user_message)>> \o DataUpdate(db, st1.work_id)
                /\ last' = Step("connect", "", <<>>)
                /\ pc' = "serve"
    /\ fs' = NoFile
    /\ UNCHANGED <<quota, conns, loop, engine, db, sessions, turn, lineage>>

\* ws(): a chat message arrives; human_input_node routes it.  (inbox.put also
\* appends the text to the session's queue, which nothing ever reads.)
A_receive ==
    /\ engine = "backend" /\ pc = "serve" /\ state.next_node = "human_input"
    /\ \E text \in Inputs :
          /\ state' = B_human_input_node([state EXCEPT !.user_message = text])
          /\ last' = Step("human_input", "", text)
    /\ sent' = <<>>
    /\ turn' = NewTurn(state')
    /\ fs' = NoFile
    /\ ReadAllowed /\ quota' = AfterRead
    /\ UNCHANGED <<conns, loop, engine, db, pc, sessions, lineage>>

\* ws(): a message whose type is not "chat" arrives (an export request with
\* its optional filename): line 63 goes back to receive_json with nothing
\* done
OtherMessages ==
    [type : {"export"}, filename : {<<>>, <<"a",".","c","s","v">>}]

A_receive_other ==
    /\ engine = "backend" /\ pc = "serve" /\ state.next_node = "human_input"
    /\ \E data \in OtherMessages :
          last' = Step("receive", data.type, <<>>)
    /\ sent' = <<>>
    /\ fs' = NoFile
    /\ UNCHANGED <<quota, conns, loop, engine, state, db, pc, sessions, turn, lineage>>

A_execute ==
    /\ engine = "backend" /\ pc = "serve" /\ state.next_node = "execute"
    /\ \E io \in ExecInputs :
          LET r == B_execute_node(state, db, io.llm, io.run)
              o == ExecOutcome(state, db, io.llm, io.run)
          IN  /\ state' = r.st
              /\ db' = r.db
              /\ sent' = <<Chat(r.st.user_message)>>
              /\ last' = Step("execute", o, <<>>)
              /\ turn' = NextTurn(o)
    /\ fs' = NoFile
    /\ lineage' = IF last'.outcome \in {"commit", "code_fail"}
                   THEN Touch(last'.outcome) ELSE lineage
    /\ UNCHANGED <<quota, conns, loop, engine, pc, sessions>>

A_eda ==
    /\ engine = "backend" /\ pc = "serve" /\ state.next_node = "eda"
    /\ state' = B_eda_node(state, db)
    /\ sent' = <<Stats(state'.user_message)>> \o DataUpdate(db, state.work_id)
    /\ last' = Step("eda", "", <<>>)
    /\ fs' = NoFile
    /\ UNCHANGED <<quota, conns, loop, engine, db, pc, sessions, turn, lineage>>

A_undo ==
    /\ engine = "backend" /\ pc = "serve" /\ state.next_node = "undo"
    /\ state.history # <<>> => Len(db) < MaxKeys
    /\ LET r == B_undo_node(state, db)
       IN  /\ state' = r.st
           /\ db' = r.db
           /\ sent' = <<Chat(r.st.user_message)>>
    /\ last' = Step("undo", IF state.history = <<>> THEN "empty" ELSE "popped", <<>>)
    /\ fs' = NoFile
    /\ lineage' = IF state.history = <<>> THEN lineage ELSE Touch("undo")
    /\ UNCHANGED <<quota, conns, loop, engine, pc, sessions, turn>>

A_export ==
    /\ engine = "backend" /\ pc = "serve" /\ state.next_node = "export"
    /\ \E io_ok \in BOOLEAN :
          /\ state' = B_export_node(state, db, io_ok)
          /\ fs' = ExportedFile(state, db, io_ok)
          /\ last' = Step("export", IF io_ok THEN "saved" ELSE "failed", <<>>)
    /\ sent' = <<Chat(state'.user_message)>>
    /\ UNCHANGED <<quota, conns, loop, engine, db, pc, sessions, turn, lineage>>

\* ws(): WebSocketDisconnect at receive_json evicts the session and ends the
\* handler, whose AgentState is gone with it
A_disconnect ==
    /\ engine = "backend" /\ pc = "serve" /\ state.next_node = "human_input"
    /\ sessions' = NoSessions
    /\ state' = NewAgentState
    /\ pc' = "connect"
    /\ sent' = <<>>
    /\ last' = Step("disconnect", "", <<>>)
    /\ fs' = NoFile
    /\ turn' = NoTurn
    /\ lineage' = NoLineage
    /\ UNCHANGED <<quota, conns, loop, engine, db>>

Next ==
    \/ M_upload \/ M_eda \/ M_human_input \/ M_execute \/ M_undo \/ M_export
    \/ A_upload \/ A_connect \/ A_receive \/ A_receive_other \/ A_execute
    \/ A_eda \/ A_undo \/ A_export \/ A_disconnect

Spec == Init /\ [][Next]_vars

\* ------------------------------------------------------------------------
\* Assignment to AgentState.raw_id
\* ------------------------------------------------------------------------
\* The field validator of DataLLM/model.py: data holds the fields validated
\* before raw_id.  raw_id is the first field of the class, so data never has
\* a raw_id entry.
raw_id_immutable(v, data) ==
    IF "raw_id" \in DOMAIN data /\ data.raw_id # NoId /\ v # data.raw_id
    THEN [ok |-> FALSE, value |-> data.raw_id]
    ELSE [ok |-> TRUE, value |-> v]

\* state.raw_id = v.  Neither class sets validate_assignment, so no validator
\* runs on assignment (backend.py declares none at all): the value is stored.
assign_raw_id(st, v) == [st EXCEPT !.raw_id = v]

\* AgentState(raw_id=v): here the validator runs, with no field before it
construct_with_raw_id(v) ==
    LET r == raw_id_immutable(v, <<>>)
    IN  IF r.ok THEN [NewAgentState EXCEPT !.raw_id = r.value] ELSE NewAgentState

SetRawId ==
    /\ pc \notin {"upload", "crashed", "END"}
    /\ \E v \in 0..MaxKeys :
          state' = IF state = NewAgentState
                   THEN construct_with_raw_id(v)
                   ELSE assign_raw_id(state, v)
    /\ last' = Step("set_raw_id", "", <<>>)
    /\ fs' = NoFile
    /\ UNCHANGED <<quota, conns, loop, engine, db, pc, sessions, sent, turn, lineage>>

\* the session before any transformation, with assignments to raw_id
NextSetattr ==
    \/ M_upload \/ M_eda \/ M_human_input \/ M_undo \/ M_export
    \/ A_upload \/ A_connect \/ A_receive \/ A_eda \/ A_undo \/ A_export
    \/ A_disconnect
    \/ SetRawId

SpecSetattr == Init /\ [][NextSetattr]_vars

\* ------------------------------------------------------------------------
\* DataLLM/Gptcode.py: the tool-based engine, run by graph.invoke.  Its
\* AgentState has no export_filename and no retry_count, its graph has fixed
\* edges from every node back to chat, and none of its nodes catches an
\* exception: a raise ends graph.invoke.
\* ------------------------------------------------------------------------
G_NewAgentState ==
    [raw_id |-> NoId, work_id |-> NoId, history |-> <<>>,
     next_node |-> "upload", user_message |-> <<>>, error |-> None]

\* MemStore.to_parquet: the bytes stored under data_id (a KeyError when
\* there are none)
MemStore_to_parquet(d, data_id) == d[data_id]

\* AgentState.push_undo of Gptcode.py (no guard: store.to_parquet raises a
\* KeyError for an unknown work_id)
G_push_undo(st, d, desc) ==
    [st EXCEPT !.history =
        Append(@, [description |-> desc,
                   snapshot |-> MemStore_to_parquet(d, st.work_id)])]

\* a store that keeps the blob under the key of its newest entry
from_parquet_overwrite(d, blob) ==
    IF d = <<>>
    THEN [db |-> <<blob>>, key |-> 1]
    ELSE [db |-> [d EXCEPT ![Len(d)] = blob], key |-> Len(d)]

\* MemStore.from_parquet: the blob stored under a fresh uuid4 key
from_parquet(d, blob) == [db |-> Append(d, blob), key |-> Len(d) + 1]

\* AgentState.undo of Gptcode.py
G_undo_method(st, d) ==
    IF st.history = <<>>
    THEN [st |-> [st EXCEPT !.user_message = <<"Nothing to undo.">>], db |-> d]
    ELSE LET entry == st.history[Len(st.history)]
             w     == from_parquet(d, entry.snapshot)
         IN  [st |-> [st EXCEPT !.history = SubSeq(@, 1, Len(@) - 1),
                                !.work_id = w.key,
                                !.user_message =
                                    <<"Undone: ">> \o entry.description],
              db |-> w.db]

G_upload_node(st, d, n) ==
    LET w == write_df(d, read_csv(n))
    IN  [st |-> [st EXCEPT !.raw_id = w.key, !.work_id = w.key,
                           !.user_message = <<"Dataset uploaded.">>],
         db |-> w.db]

G_eda_node(st, d) ==
    [st EXCEPT !.user_message =
        <<"Shape: ", ToString(get_df(d, st.work_id).rows)>>]

\* chat_node; line is what input() returned
G_chat_node(st, line) ==
    LET msg  == Strip(line)
        text == Lower(msg)
    IN  [st EXCEPT
            !.user_message = msg,
            !.next_node =
                IF Contains(text, <<"u","n","d","o">>) THEN "undo"
                ELSE IF Contains(text, <<"e","x","p","o","r","t">>)
                        \/ Contains(text, <<"s","a","v","e">>) THEN "export"
                ELSE "repl_execute"]

\* llm.invoke(...) raises, answers in text, or calls python_repl with a
\* data_id of its own choice (the prompt does not show it work_id)
G_LLMOutcomes(d) ==
    [kind : {"raise"}, content : {<<>>}, data_id : {NoId}]
    \cup [kind : {"text"}, content : Replies, data_id : {NoId}]
    \cup [kind : {"tool"}, content : Codes, data_id : 0..Len(d)]

\* python_repl: exec of the code on the dataframe at data_id; the new
\* dataframe, or an exception (unknown data_id, failing code)
G_ToolOutcomes(d, data_id) ==
    IF HasKey(d, data_id)
    THEN [df : DataFrames, raised : {FALSE}]
         \cup [df : {get_df(d, data_id)}, raised : {TRUE}]
    ELSE [df : {read_csv(1)}, raised : {TRUE}]

\* repl_execute_node when neither llm.invoke nor the tool raises
G_repl_execute_node(st, d, llm, tool) ==
    IF llm.kind = "tool"
    THEN LET pushed == G_push_undo(st, d, <<"User request: ">> \o st.user_message)
             w      == write_df(d, tool.df)
         IN  [st |-> [pushed EXCEPT !.work_id = w.key,
                                    !.user_message = <<"Python code executed successfully.">>,
                                    !.next_node = "chat"],
              db |-> w.db]
    ELSE [st |-> [st EXCEPT !.user_message = llm.content,
                            !.next_node = "chat"],
          db |-> d]

G_undo_node(st, d) ==
    LET u == G_undo_method(st, d)
    IN  [st |-> [u.st EXCEPT !.next_node = "chat"], db |-> u.db]

\* export_node when df.to_csv("cleaned.csv") succeeds
G_export_node(st) ==
    [st EXCEPT !.user_message = <<"Saved cleaned.csv. Anything else?">>,
               !.next_node = "chat"]

G_ExportedFile(st, d) ==
    [name |-> DefaultFilename, rows |-> get_df(d, st.work_id).rows]

GptInputs == {InUndo, InPleaseUndo, InExportFile, InSave, InRequest, InQuit}

\* graph of Gptcode.py (lines 188-204): upload -> eda -> chat, the
\* conditional edges of chat, and fixed edges from the other nodes to chat
G_after_chat(st) ==
    IF st.next_node \in {"repl_execute", "undo", "export"}
    THEN st.next_node ELSE "crashed"

InitGpt ==
    /\ engine = "gptcode"
    /\ state = G_NewAgentState
    /\ db = <<>>
    /\ pc = "upload"
    /\ fs = NoFile
    /\ sessions = NoSessions
    /\ sent = <<>>
    /\ last = [node |-> "init", outcome |-> "", msg |-> <<>>]
    /\ turn = NoTurn
    /\ lineage = NoLineage
    /\ conns = <<>>
    /\ loop = 0
    /\ quota = NoQuota

G_upload ==
    /\ engine = "gptcode" /\ pc = "upload"
    /\ \E n \in 1..MaxRows :
          LET r == G_upload_node(state, db, n)
          IN  /\ state' = r.st
              /\ db' = r.db
    /\ pc' = "eda"
    /\ last' = Step("upload", "", <<>>)
    /\ fs' = NoFile
    /\ UNCHANGED <<quota, conns, loop, engine, sessions, sent, turn, lineage>>

G_eda ==
    /\ engine = "gptcode" /\ pc = "eda"
    /\ state' = G_eda_node(state, db)
    /\ pc' = "chat"
    /\ last' = Step("eda", "", <<>>)
    /\ fs' = NoFile
    /\ UNCHANGED <<quota, conns, loop, engine, db, sessions, sent, turn, lineage>>

G_chat ==
    /\ engine = "gptcode" /\ pc = "chat"
    /\ \E line \in GptInputs :
          /\ state' = G_chat_node(state, line)
          /\ last' = Step("chat", "", line)
    /\ pc' = G_after_chat(state')
    /\ fs' = NoFile
    /\ UNCHANGED <<quota, conns, loop, engine, db, sessions, sent, turn, lineage>>

G_repl_execute ==
    /\ engine = "gptcode" /\ pc = "repl_execute"
    /\ \E llm \in G_LLMOutcomes(db) :
          CASE llm.kind = "raise" ->
                  /\ pc' = "crashed"
                  /\ last' = Step("repl_execute", "raise", <<>>)
                  /\ UNCHANGED <<state, db>>
            [] llm.kind = "text" ->
                  LET r == G_repl_execute_node(state, db, llm, <<>>)
                  IN  /\ state' = r.st
                      /\ db' = r.db
                      /\ pc' = "chat"
                      /\ last' = Step("repl_execute", "text", <<>>)
            [] llm.kind = "tool" ->
                  /\ Len(state.history) < MaxHist
                  /\ \E tool \in G_ToolOutcomes(db, llm.data_id) :
                        IF tool.raised
                        THEN \* python_repl.invoke raises after push_undo
                             /\ state' = G_push_undo(state, db,
                                    <<"User request: ">> \o state.user_message)
                             /\ pc' = "crashed"
                             /\ last' = Step("repl_execute", "tool_raise", <<>>)
                             /\ UNCHANGED db
                        ELSE /\ Len(db) < MaxKeys
                             /\ LET r == G_repl_execute_node(state, db, llm, tool)
                                IN  /\ state' = r.st
                                    /\ db' = r.db
                             /\ pc' = "chat"
                             /\ last' = Step("repl_execute", "commit", <<>>)
    /\ fs' = NoFile
    /\ UNCHANGED <<quota, conns, loop, engine, sessions, sent, turn, lineage>>

G_undo ==
    /\ engine = "gptcode" /\ pc = "undo"
    /\ state.history # <<>> => Len(db) < MaxKeys
    /\ LET r == G_undo_node(state, db)
       IN  /\ state' = r.st
           /\ db' = r.db
    /\ pc' = "chat"
    /\ last' = Step("undo", IF state.history = <<>> THEN "empty" ELSE "popped", <<>>)
    /\ fs' = NoFile
    /\ UNCHANGED <<quota, conns, loop, engine, sessions, sent, turn, lineage>>

\* export_node has no try: a failing df.to_csv ends graph.invoke
G_export ==
    /\ engine = "gptcode" /\ pc = "export"
    /\ \E io_ok \in BOOLEAN :
          IF io_ok
          THEN /\ state' = G_export_node(state)
               /\ fs' = G_ExportedFile(state, db)
               /\ pc' = "chat"
               /\ last' = Step("export", "saved", <<>>)
          ELSE /\ pc' = "crashed"
               /\ fs' = NoFile
               /\ last' = Step("export", "failed", <<>>)
               /\ UNCHANGED state
    /\ UNCHANGED <<quota, conns, loop, engine, db, sessions, sent, turn, lineage>>

NextGpt ==
    \/ G_upload \/ G_eda \/ G_chat \/ G_repl_execute \/ G_undo \/ G_export

SpecGpt == InitGpt /\ [][NextGpt]_vars

\* ------------------------------------------------------------------------
\* A Code Runner call that never returns.  exec() in execute_with_retry and
\* exec_code, and PythonREPLTool.run without a timeout, are plain calls with
\* no deadline: execute_node has pushed its undo entry and never gets
\* control back.
\* ------------------------------------------------------------------------
M_execute_hangs ==
    /\ engine = "model" /\ pc = "execute"
    /\ HasKey(db, state.work_id)
    /\ Len(state.history) < MaxHist
    /\ \E code \in Codes :
          state' = push_undo(state, db, UndoDesc(code))
    /\ pc' = "hung"
    /\ last' = Step("execute", "hang", <<>>)
    /\ fs' = NoFile
    /\ UNCHANGED <<quota, conns, loop, engine, db, sessions, sent, turn, lineage>>

\* the handler of ws() is inside execute_node: nothing is sent
A_execute_hangs ==
    /\ engine = "backend" /\ pc = "serve" /\ state.next_node = "execute"
    /\ HasKey(db, state.work_id)
    /\ Len(state.history) < MaxHist
    /\ \E code \in Codes :
          state' = push_undo(state, db, UndoDesc(code))
    /\ pc' = "hung"
    /\ sent' = <<>>
    /\ last' = Step("execute", "hang", <<>>)
    /\ fs' = NoFile
    /\ UNCHANGED <<quota, conns, loop, engine, db, sessions, turn, lineage>>

NextDeadline == Next \/ M_execute_hangs \/ A_execute_hangs

\* every step that can be taken is eventually taken
SpecDeadline == Init /\ [][NextDeadline]_vars /\ WF_vars(NextDeadline)

\* ------------------------------------------------------------------------
\* customAI/api.py with two websocket handlers on one asyncio event loop.
\* Every handler of ws() has its own AgentState (line 48); the handlers share
\* the store and the sessions registry.  A coroutine runs until its next
\* await: `loop` is the handler that is running, 0 when every handler is
\* suspended.  conns[c].pos is where handler c is:
\*   "closed"  no websocket open
\*   "recv"    suspended at receive_json (line 62)
\*   "run"     in the inner while loop (lines 70-87), a node call is next
\*   "pushed"  inside execute_node, between push_undo (line 171) and the
\*             result of the Code Runner (lines 173-184)
\* and conns[c].chats counts the chat messages handler c has received.
\* An evicted session stays in the sequence with present = FALSE, so that a
\* session id (uuid4) is never given out twice.
\* Two set-ups are run, told apart by pc:
\*   pc = "peers"     one upload, both websockets are opened for its session
\*   pc = "sessions"  two uploads, websocket c is opened for session c
\* ------------------------------------------------------------------------
Conns      == {1, 2}
SessionIds == {1, 2}

\* the sessions that are uploaded, and the session ids handler c connects to
Uploads    == IF pc = "peers" THEN 1 ELSE Cardinality(SessionIds)
SidsOf(c)  == IF pc = "peers" THEN {1} ELSE {c}

NoConn == [st |-> NewAgentState, sid |-> 0, pos |-> "closed", chats |-> 0]

PeerInputs == {InUndo, InExport, InRequest}
PeerLLMOutcomes == {o \in LLMOutcomes : o.kind \in {"answer", "code"}}

\* the awaits of a ws() in which the Code Runner is awaited too
\* (new_df, err, output = await run_code(...))
AwaitPoints_in_execute == {"receive_json", "send_json", "push_undo"}

\* A step of a handler ends at one of the points "receive_json", "send_json",
\* "human_input_node" (its return, line 68) and "push_undo" (its return,
\* backend.py line 171).  These are the points at which ws() awaits:
AwaitPoints == {"receive_json", "send_json"}

\* the handler that holds the event loop after handler c got to point
LoopAfter(c, point) == IF point \in AwaitPoints THEN 0 ELSE c

\* the position after a node call and its send_json (the test of line 70)
PosAfterNode(st) == IF st.next_node = "human_input" THEN "recv" ELSE "run"

\* a registry whose entries are never removed
InSession_never_evicted(sid) == sid \in 1..Len(sessions)

InSession(sid) == sid \in 1..Len(sessions) /\ sessions[sid].present

PStep(node, outcome, msg, c) ==
    [node |-> node, outcome |-> outcome, msg |-> msg, conn |-> c]

InitPeers ==
    /\ engine = "backend"
    /\ state = NewAgentState
    /\ db = <<>>
    /\ pc = "peers"
    /\ fs = NoFile
    /\ sessions = <<>>
    /\ sent = <<>>
    /\ last = PStep("init", "", <<>>, 0)
    /\ turn = NoTurn
    /\ lineage = NoLineage
    /\ conns = [c \in Conns |-> NoConn]
    /\ loop = 0
    /\ quota = NoQuota

\* POST /api/upload (the code after await file.read())
P_upload ==
    /\ pc \in {"peers", "sessions"} /\ loop = 0
    /\ Len(sessions) < Uploads
    /\ Len(db) < MaxKeys
    /\ \E n \in 1..MaxRows :
          LET r == B_upload_node(NewAgentState, db, n)
          IN  /\ db' = r.db
              /\ sessions' = Append(sessions,
                     [work_id |-> r.st.work_id, raw_id |-> r.st.raw_id,
                      present |-> TRUE])
    /\ last' = PStep("upload", "", <<>>, 0)
    /\ fs' = NoFile
    /\ sent' = <<>>
    /\ UNCHANGED <<quota, engine, state, pc, turn, lineage, conns, loop>>

\* ws() up to its first receive_json
P_connect(c) ==
    /\ pc \in {"peers", "sessions"} /\ loop = 0 /\ conns[c].pos = "closed"
    /\ \E sid \in SidsOf(c) :
          IF ~InSession(sid)
          THEN /\ sent' = <<ErrorMsg(<<"bad session">>)>>
               /\ last' = PStep("connect", "bad session", <<>>, c)
               /\ UNCHANGED conns
          ELSE LET st0 == [NewAgentState EXCEPT
                              !.work_id = sessions[sid].work_id,
                              !.raw_id = sessions[sid].raw_id]
                   st1 == B_eda_node(st0, db)
               IN  /\ conns' = [conns EXCEPT ![c] =
                                  [st |-> st1, sid |-> sid, pos |-> "recv",
                                   chats |-> conns[c].chats]]
                   /\ sent' = <<Stats(st1.user_message)>>
                                  \o DataUpdate(db, st1.work_id)
                   /\ last' = PStep("connect", "", <<>>, c)
    /\ loop' = LoopAfter(c, "receive_json")
    /\ fs' = NoFile
    /\ UNCHANGED <<quota, engine, state, db, pc, sessions, turn, lineage>>

\* a chat message is received and routed; the first node call follows
\* without an await in between
P_receive(c) ==
    /\ pc \in {"peers", "sessions"} /\ loop = 0 /\ conns[c].pos = "recv"
    /\ conns[1].chats + conns[2].chats < MaxChats
    /\ \E text \in PeerInputs :
          /\ conns' = [conns EXCEPT
                ![c].st = B_human_input_node([@ EXCEPT !.user_message = text]),
                ![c].pos = "run",
                ![c].chats = @ + 1]
          /\ last' = PStep("human_input", "", text, c)
    /\ loop' = LoopAfter(c, "human_input_node")
    /\ sent' = <<>>
    /\ fs' = NoFile
    /\ UNCHANGED <<quota, engine, state, db, pc, sessions, turn, lineage>>

\* execute_node from the Code Runner's result on (lines 173-184), for a state
\* whose undo entry has been pushed
B_execute_end(pushed, d, run) ==
    IF run.err # None
    THEN [st |-> B_code_failure(pushed, run.err), db |-> d]
    ELSE B_code_success(pushed, d, run.df, run.output)

\* execute_node up to the call of the Code Runner: an answer, a clarify and
\* a parse failure finish the node, and its message is sent; a code proposal
\* pushes the undo entry and goes on to the Code Runner
P_execute(c) ==
    /\ pc \in {"peers", "sessions"} /\ loop \in {0, c}
    /\ conns[c].pos = "run" /\ conns[c].st.next_node = "execute"
    /\ \E llm \in PeerLLMOutcomes :
          LET st == conns[c].st
          IN  IF llm.kind = "code" /\ HasKey(db, st.work_id)
              THEN /\ Len(st.history) < MaxHist
                   /\ conns' = [conns EXCEPT
                         ![c].st = push_undo(st, db, UndoDesc(llm.content)),
                         ![c].pos = "pushed"]
                   /\ loop' = LoopAfter(c, "push_undo")
                   /\ sent' = <<>>
                   /\ last' = PStep("execute", "pushed", <<>>, c)
              ELSE LET r == B_execute_node(st, db, llm,
                               [df |-> read_csv(1), err |-> None, output |-> <<>>])
                   IN  /\ llm.kind \notin {"answer", "clarify"}
                             => st.retry_count < MaxRetryCount
                       /\ conns' = [conns EXCEPT ![c].st = r.st,
                                                 ![c].pos = PosAfterNode(r.st)]
                       /\ loop' = LoopAfter(c, "send_json")
                       /\ sent' = <<Chat(r.st.user_message)>>
                       /\ last' = PStep("execute",
                              ExecOutcome(st, db, llm, [err |-> None]), <<>>, c)
    /\ fs' = NoFile
    /\ UNCHANGED <<quota, engine, state, db, pc, sessions, turn, lineage>>

\* the rest of execute_node and the send_json after it
P_execute_end(c) ==
    /\ pc \in {"peers", "sessions"} /\ loop \in {0, c}
    /\ conns[c].pos = "pushed"
    /\ \E run \in RunOutcomes(get_df(db, conns[c].st.work_id)) :
          LET r == B_execute_end(conns[c].st, db, run)
          IN  /\ run.err = None => Len(db) < MaxKeys
              /\ run.err # None => conns[c].st.retry_count < MaxRetryCount
              /\ conns' = [conns EXCEPT ![c].st = r.st,
                                        ![c].pos = PosAfterNode(r.st)]
              /\ db' = r.db
              /\ sent' = <<Chat(r.st.user_message)>>
              /\ last' = PStep("execute",
                     IF run.err = None THEN "commit" ELSE "code_fail", <<>>, c)
    /\ loop' = LoopAfter(c, "send_json")
    /\ fs' = NoFile
    /\ UNCHANGED <<quota, engine, state, pc, sessions, turn, lineage>>

P_eda(c) ==
    /\ pc \in {"peers", "sessions"} /\ loop \in {0, c}
    /\ conns[c].pos = "run" /\ conns[c].st.next_node = "eda"
    /\ LET st1 == B_eda_node(conns[c].st, db)
       IN  /\ conns' = [conns EXCEPT ![c].st = st1, ![c].pos = PosAfterNode(st1)]
           /\ sent' = <<Stats(st1.user_message)>> \o DataUpdate(db, st1.work_id)
    /\ last' = PStep("eda", "", <<>>, c)
    /\ loop' = LoopAfter(c, "send_json")
    /\ fs' = NoFile
    /\ UNCHANGED <<quota, engine, state, db, pc, sessions, turn, lineage>>

P_undo(c) ==
    /\ pc \in {"peers", "sessions"} /\ loop \in {0, c}
    /\ conns[c].pos = "run" /\ conns[c].st.next_node = "undo"
    /\ conns[c].st.history # <<>> => Len(db) < MaxKeys
    /\ LET r == B_undo_node(conns[c].st, db)
       IN  /\ conns' = [conns EXCEPT ![c].st = r.st, ![c].pos = PosAfterNode(r.st)]
           /\ db' = r.db
           /\ sent' = <<Chat(r.st.user_message)>>
    /\ last' = PStep("undo",
           IF conns[c].st.history = <<>> THEN "empty" ELSE "popped", <<>>, c)
    /\ loop' = LoopAfter(c, "send_json")
    /\ fs' = NoFile
    /\ UNCHANGED <<quota, engine, state, pc, sessions, turn, lineage>>

P_export(c) ==
    /\ pc \in {"peers", "sessions"} /\ loop \in {0, c}
    /\ conns[c].pos = "run" /\ conns[c].st.next_node = "export"
    /\ \E io_ok \in BOOLEAN :
          LET st1 == B_export_node(conns[c].st, db, io_ok)
          IN  /\ conns' = [conns EXCEPT ![c].st = st1, ![c].pos = PosAfterNode(st1)]
              /\ fs' = ExportedFile(conns[c].st, db, io_ok)
              /\ sent' = <<Chat(st1.user_message)>>
              /\ last' = PStep("export",
                     IF io_ok THEN "saved" ELSE "failed", <<>>, c)
    /\ loop' = LoopAfter(c, "send_json")
    /\ UNCHANGED <<quota, engine, state, db, pc, sessions, turn, lineage>>

\* WebSocketDisconnect at receive_json: the session is evicted (line 89)
P_disconnect(c) ==
    /\ pc \in {"peers", "sessions"} /\ loop = 0 /\ conns[c].pos = "recv"
    /\ sessions' = [sessions EXCEPT ![conns[c].sid].present = FALSE]
    /\ conns' = [conns EXCEPT ![c] = [NoConn EXCEPT !.chats = conns[c].chats]]
    /\ last' = PStep("disconnect", "", <<>>, c)
    /\ sent' = <<>>
    /\ fs' = NoFile
    /\ UNCHANGED <<quota, engine, state, db, pc, turn, lineage, loop>>

InitSessions ==
    /\ engine = "backend"
    /\ state = NewAgentState
    /\ db = <<>>
    /\ pc = "sessions"
    /\ fs = NoFile
    /\ sessions = <<>>
    /\ sent = <<>>
    /\ last = PStep("init", "", <<>>, 0)
    /\ turn = NoTurn
    /\ lineage = NoLineage
    /\ conns = [c \in Conns |-> NoConn]
    /\ loop = 0
    /\ quota = NoQuota

NextPeers ==
    \/ P_upload
    \/ \E c \in Conns : P_connect(c)
    \/ \E c \in Conns : P_receive(c)
    \/ \E c \in Conns : P_execute(c)
    \/ \E c \in Conns : P_execute_end(c)
    \/ \E c \in Conns : P_eda(c)
    \/ \E c \in Conns : P_undo(c)
    \/ \E c \in Conns : P_export(c)
    \/ \E c \in Conns : P_disconnect(c)

SpecPeers == InitPeers /\ [][NextPeers]_vars

SpecSessions == InitSessions /\ [][NextPeers]_vars

\* ------------------------------------------------------------------------
\* The driving loop when every collaborator call returns: graph.stream of
\* model.py and the inner while loop of ws() run the node next_node names as
\* soon as the previous one has returned.  Reading the next user message is
\* not forced.  A behaviour reads at most MaxTurns user messages.
\* ------------------------------------------------------------------------
DriverStep ==
    \/ M_eda \/ M_execute \/ M_undo \/ M_export
    \/ A_execute \/ A_eda \/ A_undo \/ A_export

InitLoop ==
    /\ engine \in {"model", "backend"}
    /\ state = NewAgentState
    /\ db = <<>>
    /\ pc = "upload"
    /\ fs = NoFile
    /\ sessions = NoSessions
    /\ sent = <<>>
    /\ last = [node |-> "init", outcome |-> "", msg |-> <<>>]
    /\ turn = NoTurn
    /\ lineage = NoLineage
    /\ conns = <<>>
    /\ loop = 0
    /\ quota = [limited |-> TRUE, left |-> MaxTurns]

SpecLoop == InitLoop /\ [][Next]_vars /\ WF_vars(DriverStep)

\* ------------------------------------------------------------------------
\* DataLLM/model.py with a handle the store does not know.  work_id is a
\* plain field of AgentState (no validate_assignment): a caller can assign
\* it between two commands, as customAI/api.py does at its line 49.  The
\* store's keys are uuids, so an assigned value that no write_df returned
\* is never a key later either: UnknownIds are outside 1..MaxKeys.
\* ------------------------------------------------------------------------
UnknownIds == {NoId, MaxKeys + 2}

assign_work_id(st, v) == [st EXCEPT !.work_id = v]

SetWorkId ==
    /\ engine = "model" /\ pc = "human_input"
    /\ HasKey(db, state.work_id)
    /\ \E v \in UnknownIds : state' = assign_work_id(state, v)
    /\ last' = Step("set_work_id", "", <<>>)
    /\ fs' = NoFile
    /\ UNCHANGED <<quota, conns, loop, engine, db, pc, sessions, sent, turn,
                   lineage>>

InitNotFound == Init /\ engine = "model"

NextNotFound ==
    \/ M_upload \/ M_eda \/ M_human_input \/ M_execute \/ M_undo \/ M_export
    \/ SetWorkId

SpecNotFound == InitNotFound /\ [][NextNotFound]_vars

\* ------------------------------------------------------------------------
\* Commits and undos only: the node functions of model.py and backend.py in
\* the order their drivers call them (upload, eda, human_input, then execute
\* or undo, then eda), with a Proposal Generator that always proposes code
\* and a Code Runner that never fails.  Here lineage records the versions of
\* the working dataset: versions is the stack of the contents work_id had
\* after the upload and after each commit that was not undone, commits and
\* undos count the commits and the undos since the last commit.
\* ------------------------------------------------------------------------
MaxLifoKeys == 2 * MaxHist + 1

LifoInputs == {InUndo, InRequest}

InitLifo ==
    /\ engine \in {"model", "backend"}
    /\ state = NewAgentState
    /\ db = <<>>
    /\ pc = "upload"
    /\ fs = NoFile
    /\ sessions = NoSessions
    /\ sent = <<>>
    /\ last = Step("init", "", <<>>)
    /\ turn = NoTurn
    /\ lineage = [versions |-> <<>>, commits |-> 0, undos |-> 0]
    /\ conns = <<>>
    /\ loop = 0
    /\ quota = NoQuota

L_upload ==
    /\ pc = "upload"
    /\ \E n \in 1..MaxRows :
          LET r == IF engine = "model" THEN M_upload_node(state, db, n)
                   ELSE B_upload_node(state, db, n)
          IN  /\ state' = r.st
              /\ db' = r.db
              /\ lineage' = [lineage EXCEPT !.versions = <<r.db[r.st.work_id]>>]
    /\ pc' = "eda"
    /\ last' = Step("upload", "", <<>>)
    /\ UNCHANGED <<quota, conns, loop, engine, fs, sessions, sent, turn>>

L_eda ==
    /\ pc = "eda"
    /\ state' = IF engine = "model" THEN M_eda_node(state, db)
                ELSE B_eda_node(state, db)
    /\ pc' = "human_input"
    /\ last' = Step("eda", "", <<>>)
    /\ UNCHANGED <<quota, conns, loop, engine, db, fs, sessions, sent, turn,
                   lineage>>

L_human_input ==
    /\ pc = "human_input"
    /\ \E line \in LifoInputs :
          /\ state' = IF engine = "model" THEN M_human_input_node(state, line)
                      ELSE B_human_input_node([state EXCEPT !.user_message = line])
          /\ last' = Step("human_input", "", line)
    /\ pc' = state'.next_node
    /\ UNCHANGED <<quota, conns, loop, engine, db, fs, sessions, sent, turn,
                   lineage>>

L_execute ==
    /\ pc = "execute"
    /\ Len(db) < MaxLifoKeys /\ Len(state.history) < MaxHist
    /\ \E code \in Codes : \E df \in DataFrames : \E out \in Outputs :
          LET llm == [kind |-> "code", content |-> code]
              run == [df |-> df, err |-> None, output |-> out]
              r   == IF engine = "model" THEN M_execute_node(state, db, llm, run)
                     ELSE B_execute_node(state, db, llm, run)
          IN  /\ state' = r.st
              /\ db' = r.db
              /\ lineage' = [versions |-> Append(lineage.versions,
                                                 r.db[r.st.work_id]),
                             commits  |-> lineage.commits + 1,
                             undos    |-> 0]
    /\ pc' = state'.next_node
    /\ last' = Step("execute", "commit", <<>>)
    /\ UNCHANGED <<quota, conns, loop, engine, fs, sessions, sent, turn>>

L_undo ==
    /\ pc = "undo"
    /\ state.history # <<>> => Len(db) < MaxLifoKeys
    /\ LET r == IF engine = "model" THEN M_undo_node(state, db)
                ELSE B_undo_node(state, db)
       IN  /\ state' = r.st
           /\ db' = r.db
    /\ lineage' = [lineage EXCEPT
          !.versions = IF Len(@) > 1 THEN SubSeq(@, 1, Len(@) - 1) ELSE @,
          !.undos = IF @ <= MaxHist THEN @ + 1 ELSE @]
    /\ pc' = state'.next_node
    /\ last' = Step("undo", IF state.history = <<>> THEN "empty" ELSE "popped", <<>>)
    /\ UNCHANGED <<quota, conns, loop, engine, fs, sessions, sent, turn>>

NextLifo == L_upload \/ L_eda \/ L_human_input \/ L_execute \/ L_undo

SpecLifo == InitLifo /\ [][NextLifo]_vars

\* ------------------------------------------------------------------------
\* DataLLM/model.py run with input lines that mix the routing words: lines
\* with two of the words, a word inside a longer word, a quit word with
\* other text around it, and upper case.  At most MaxTurns lines are read.
\* ------------------------------------------------------------------------
InExportUndo == <<"e","x","p","o","r","t"," ","u","n","d","o">>
InUndoSave   == <<"U","N","D","O"," ","s","a","v","e">>
InSaveExit   == <<"s","a","v","e"," ","e","x","i","t">>
InUnsaved    == <<"u","n","s","a","v","e","d">>
InQuitCaps   == <<" ","Q","u","i","t"," ">>
InExitNow    == <<"e","x","i","t"," ","n","o","w">>
InQuitter    == <<"q","u","i","t","s">>

RoutingInputs ==
    {InEmpty, InUndo, InExport, InSave, InQuit, InExit, InRequest,
     InExportUndo, InUndoSave, InSaveExit, InUnsaved, InQuitCaps, InExitNow,
     InQuitter}

R_human_input ==
    /\ engine = "model" /\ pc = "human_input"
    /\ \E line \in RoutingInputs :
          /\ state' = M_human_input_node(state, line)
          /\ last' = Step("human_input", "", line)
    /\ pc' = M_after_human_input(state')
    /\ turn' = NewTurn(state')
    /\ fs' = NoFile
    /\ ReadAllowed /\ quota' = AfterRead
    /\ UNCHANGED <<conns, loop, engine, db, sessions, sent, lineage>>

InitRouting == InitLoop /\ engine = "model"

NextRouting ==
    \/ M_upload \/ M_eda \/ R_human_input \/ M_execute \/ M_undo \/ M_export

SpecRouting == InitRouting /\ [][NextRouting]_vars

\* ------------------------------------------------------------------------
\* DataLLM/modelState.py: AgentState with push_undo, undo and reset_to_raw.
\* The module has no driver: its methods are called by a caller in any
\* order, on a store with the DataStore protocol (to_parquet, from_parquet;
\* MemStore of Gptcode.py implements it).  The caller's own steps are the
\* load of a dataset (its handle assigned to raw_id and work_id) and the
\* assignment of a new handle to work_id after a change.  The fields no
\* method reads or writes (suggestions, generated_code, active_suggestion_id)
\* are left out.
\* ------------------------------------------------------------------------
S_NewAgentState ==
    [raw_id |-> NoId, work_id |-> NoId, history |-> <<>>,
     next_node |-> "upload", user_message |-> <<>>, error |-> None]

\* AgentState.push_undo (store.to_parquet raises for an unknown work_id,
\* before anything is appended)
S_push_undo_method(st, d, desc) ==
    IF HasKey(d, st.work_id)
    THEN [st EXCEPT !.history =
             Append(@, [description |-> desc,
                        mask_bytes |-> MemStore_to_parquet(d, st.work_id)])]
    ELSE st

\* AgentState.undo
S_undo_method(st, d) ==
    IF st.history = <<>>
    THEN [st |-> [st EXCEPT !.user_message = <<"Nothing to undo">>], db |-> d]
    ELSE LET entry == st.history[Len(st.history)]
             w     == from_parquet(d, entry.mask_bytes)
         IN  [st |-> [st EXCEPT !.history = SubSeq(@, 1, Len(@) - 1),
                                !.work_id = w.key,
                                !.user_message =
                                    <<"Undone: ">> \o entry.description],
              db |-> w.db]

\* reset_to_raw that leaves the undo history in place
reset_to_raw_keeps_history(st) ==
    [st EXCEPT !.work_id = st.raw_id,
               !.user_message = <<"Reset to original data">>]

\* AgentState.reset_to_raw
reset_to_raw(st) ==
    [st EXCEPT !.work_id = st.raw_id,
               !.history = <<>>,
               !.user_message = <<"Reset to original data">>]

InitState ==
    /\ engine = "modelstate"
    /\ state = S_NewAgentState
    /\ db = <<>>
    /\ pc = "upload"
    /\ fs = NoFile
    /\ sessions = NoSessions
    /\ sent = <<>>
    /\ last = Step("init", "", <<>>)
    /\ turn = NoTurn
    /\ lineage = NoLineage
    /\ conns = <<>>
    /\ loop = 0
    /\ quota = NoQuota

\* the caller stores a dataset and assigns its handle to raw_id and work_id
S_load ==
    /\ engine = "modelstate" /\ pc = "upload"
    /\ \E blob \in {to_parquet(df) : df \in DataFrames} :
          LET w == from_parquet(db, blob)
          IN  /\ db' = w.db
              /\ state' = [state EXCEPT !.raw_id = w.key, !.work_id = w.key]
    /\ pc' = "ready"
    /\ last' = Step("load", "", <<>>)
    /\ UNCHANGED <<quota, conns, loop, engine, fs, sessions, sent, turn, lineage>>

S_push_undo ==
    /\ engine = "modelstate"
    /\ Len(state.history) < MaxHist
    /\ state' = S_push_undo_method(state, db, UndoDesc(ShortCode))
    /\ last' = Step("push_undo",
                    IF HasKey(db, state.work_id) THEN "pushed" ELSE "raise", <<>>)
    /\ UNCHANGED <<quota, conns, loop, engine, db, pc, fs, sessions, sent, turn,
                   lineage>>

\* the caller stores the changed dataset and assigns its handle to work_id
S_change ==
    /\ engine = "modelstate" /\ pc = "ready"
    /\ Len(db) < MaxKeys
    /\ \E blob \in {to_parquet(df) : df \in DataFrames} :
          LET w == from_parquet(db, blob)
          IN  /\ db' = w.db
              /\ state' = [state EXCEPT !.work_id = w.key]
    /\ last' = Step("change", "", <<>>)
    /\ UNCHANGED <<quota, conns, loop, engine, pc, fs, sessions, sent, turn,
                   lineage>>

S_undo ==
    /\ engine = "modelstate"
    /\ state.history # <<>> => Len(db) < MaxKeys
    /\ LET r == S_undo_method(state, db)
       IN  /\ state' = r.st
           /\ db' = r.db
    /\ last' = Step("undo", IF state.history = <<>> THEN "empty" ELSE "popped", <<>>)
    /\ UNCHANGED <<quota, conns, loop, engine, pc, fs, sessions, sent, turn,
                   lineage>>

S_reset_to_raw ==
    /\ engine = "modelstate"
    /\ state' = reset_to_raw(state)
    /\ last' = Step("reset_to_raw", "", <<>>)
    /\ UNCHANGED <<quota, conns, loop, engine, db, pc, fs, sessions, sent, turn,
                   lineage>>

NextState == S_load \/ S_push_undo \/ S_change \/ S_undo \/ S_reset_to_raw

SpecState == InitState /\ [][NextState]_vars

\* ========================================================================
\* Properties
\* ========================================================================
Executed(outcome) == last.node = "execute" /\ last.outcome = outcome

\* C1 (retry bound): when the Code Runner has failed on every attempt of a
\* request, the engine retries while fewer than MAX_RETRIES attempts were
\* made, and after the MAX_RETRIES-th attempt the session is at human_input
\* with retry_count 0, no error, and the work_id it had before the first
\* attempt.
C1_RetryBound ==
    (Executed("code_fail") /\ turn.streak >= 1) =>
        /\ turn.streak <= MAX_RETRIES
        /\ turn.streak < MAX_RETRIES => state.next_node = "execute"
        /\ turn.streak = MAX_RETRIES =>
              /\ state.next_node = "human_input"
              /\ state.retry_count = 0
              /\ state.error = None
              /\ state.work_id = turn.work_id

\* C2 (reset invariant): after every execute_node step that does not lead
\* back to execute, retry_count is 0.
C2_ResetInvariant ==
    (last.node = "execute" /\ last.outcome # "raise"
        /\ state.next_node # "execute") => state.retry_count = 0

\* C3: retry_count is below MAX_RETRIES at every step boundary (and so never
\* exceeds it).
C3_RetryCountBelowBound == state.retry_count < MAX_RETRIES

\* C4 (undo correctness): when an undo directly follows a successful commit,
\* work_id refers to the bytes it referred to before the commit, and raw_id
\* still refers to the bytes the upload stored.
C4_UndoCorrect ==
    lineage.phase = "reverted" =>
        /\ HasKey(db, state.work_id) /\ db[state.work_id] = lineage.before
        /\ HasKey(db, state.raw_id) /\ db[state.raw_id] = lineage.loaded

C4_Witness ==
    /\ lineage.phase = "reverted"
    /\ last.node = "undo" /\ last.outcome = "popped"
    /\ state.work_id # state.raw_id
    /\ db[state.work_id] = lineage.before

\* C5 (empty undo): an undo step on an empty history reports "Nothing to
\* undo." without failing, leaves work_id, raw_id, history and the store as
\* they were, and goes on to eda like every undo step.
C5_EmptyUndo ==
    [][(last'.node = "undo" /\ state.history = <<>>) =>
          /\ state'.user_message[Len(state'.user_message)] = "Nothing to undo."
          /\ state'.work_id = state.work_id
          /\ state'.raw_id = state.raw_id
          /\ state'.history = <<>>
          /\ db' = db
          /\ state'.next_node = "eda"
          /\ pc' # "crashed"]_vars

C5_Witness == last.node = "undo" /\ last.outcome = "empty" /\ state.work_id # NoId

\* C6 (immutability): an assignment to a non-empty raw_id leaves raw_id and
\* work_id as they were.
C6_RawIdImmutable ==
    [][(last'.node = "set_raw_id" /\ state.raw_id # NoId) =>
          /\ state'.raw_id = state.raw_id
          /\ state'.work_id = state.work_id]_vars

\* C7: raw_id gets its value from the upload (the websocket handler copies
\* it from the session the upload registered) and no step changes it
\* afterwards, until a disconnect ends the session; the session's registered
\* raw_id never changes either.
C7_RawIdStable ==
    [][/\ (state.raw_id # NoId /\ last'.node # "disconnect")
             => state'.raw_id = state.raw_id
       /\ (state'.raw_id # state.raw_id /\ last'.node # "disconnect")
             => (state.raw_id = NoId /\ last'.node \in {"upload", "connect"})
       /\ (SessionId \in DOMAIN sessions /\ SessionId \in DOMAIN sessions')
             => sessions'[SessionId].raw_id = sessions[SessionId].raw_id
       /\ (last'.node = "connect" /\ pc' = "serve")
             => state'.raw_id = sessions[SessionId].raw_id]_vars

C7_Witness ==
    /\ state.raw_id # NoId
    /\ state.work_id # state.raw_id
    /\ last.node = "undo" /\ last.outcome = "popped"

\* C8: when the Code Runner fails k < MAX_RETRIES times and then succeeds,
\* each failure leads straight back to execute, and the commit on attempt
\* k+1 leaves retry_count 0 and next_node eda with a new work_id.
C8_AutoRetry ==
    /\ (Executed("code_fail") /\ turn.streak >= 1
            /\ turn.streak < MAX_RETRIES) => state.next_node = "execute"
    /\ (Executed("commit") /\ turn.streak >= 0) =>
            /\ state.retry_count = 0
            /\ state.next_node = "eda"
            /\ state.work_id # turn.work_id

\* C9: an execute_node step in which the Code Runner fails leaves work_id and
\* the store as they were and leaves exactly one more entry on the history,
\* holding the bytes of work_id.
C9_FailedAttemptFrame ==
    [][(last'.node = "execute" /\ last'.outcome = "code_fail") =>
          /\ state'.work_id = state.work_id
          /\ db' = db
          /\ Len(state'.history) = Len(state.history) + 1
          /\ SubSeq(state'.history, 1, Len(state.history)) = state.history
          /\ state'.history[Len(state'.history)].snapshot = db[state.work_id]]_vars

C9_Witness == Executed("code_fail") /\ Len(state.history) >= 2

\* The routes the transition table allows for a text: the command words
\* themselves have one route, a text with no command word in it goes to
\* execute, and any other text goes to one of the four.
Word_undo   == <<"u","n","d","o">>
Word_export == <<"e","x","p","o","r","t">>
Word_save   == <<"s","a","v","e">>
Word_quit   == <<"q","u","i","t">>
Word_exit   == <<"e","x","i","t">>

TableRoutes(text) ==
    LET t == Lower(Strip(text))
    IN  IF t = Word_undo THEN {"undo"}
        ELSE IF t \in {Word_export, Word_save} THEN {"export"}
        ELSE IF t \in {Word_quit, Word_exit} THEN {"END"}
        ELSE IF \A w \in {Word_undo, Word_export, Word_save, Word_quit, Word_exit} :
                    ~Contains(t, w) THEN {"execute"}
        ELSE {"undo", "export", "END", "execute"}

\* C10 (input routing): human_input_node sends every text, the empty one
\* included, to the step the transition table gives for it.
C10_InputRouting ==
    [][last'.node = "human_input" =>
          state'.next_node \in TableRoutes(last'.msg)]_vars

\* C11 (terminal state): a run of DataLLM/model.py by main() ends only when
\* human_input_node reads "quit" or "exit"; no other step ends graph.stream.
C11_EndsOnlyOnQuit ==
    [][(engine = "model" /\ pc \notin {"END", "crashed"}
            /\ pc' \in {"END", "crashed"}) =>
          /\ last'.node = "human_input"
          /\ Lower(Strip(last'.msg)) \in {Word_quit, Word_exit}]_vars

\* The step of the transition table that a node is
StepName(node) ==
    CASE node = "upload"                        -> "Upload"
      [] node \in {"eda", "connect"}            -> "Analyze"
      [] node \in {"human_input", "chat"}       -> "AwaitInput"
      [] node \in {"execute", "repl_execute"}   -> "Execute"
      [] node = "undo"                          -> "Undo"
      [] node = "export"                        -> "Export"
      [] OTHER                                  -> "none"

TransitionTable ==
    {<<"Upload", "Analyze">>, <<"Analyze", "AwaitInput">>,
     <<"AwaitInput", "Undo">>, <<"AwaitInput", "Export">>,
     <<"AwaitInput", "Execute">>,
     <<"Execute", "AwaitInput">>, <<"Execute", "Analyze">>,
     <<"Execute", "Execute">>,
     <<"Undo", "Analyze">>, <<"Export", "AwaitInput">>}

\* C12 (transition table): whenever one engine step follows another, the
\* pair (step, next step) is a row of the transition table, and the engine
\* stops at END only from AwaitInput.
C12_TransitionsInTable ==
    [][/\ (StepName(last.node) # "none" /\ StepName(last'.node) # "none")
             => <<StepName(last.node), StepName(last'.node)>> \in TransitionTable
       /\ (pc' = "END" /\ pc # "END")
             => StepName(last'.node) = "AwaitInput"]_vars

\* C13 (export): an export_node step of model.py or backend.py writes the
\* rows of the dataset at work_id, leaves work_id, raw_id, history,
\* retry_count and the store as they were, and sets next_node to
\* human_input, whether df.to_csv succeeds or fails.
C13_ExportFrame ==
    [][last'.node = "export" =>
          /\ state'.work_id = state.work_id
          /\ state'.raw_id = state.raw_id
          /\ state'.history = state.history
          /\ state'.retry_count = state.retry_count
          /\ db' = db
          /\ state'.next_node = "human_input"
          /\ pc' \in {"human_input", "serve"}
          /\ last'.outcome = "saved" =>
                /\ fs'.name = state.export_filename
                /\ fs'.rows = get_df(db, state.work_id).rows
          /\ last'.outcome = "failed" => fs' = NoFile]_vars

C13_Witness ==
    /\ last.node = "export" /\ last.outcome = "saved"
    /\ state.work_id # state.raw_id
    /\ fs.rows = get_df(db, state.work_id).rows
    /\ fs.rows # get_df(db, state.raw_id).rows

\* C14 (errors stay inside Execute): after a failed execute_node attempt
\* that leads to a retry, the websocket adapter has sent no chat message;
\* an error text is sent only when the retries are exhausted.
C14_NoIntermediateErrorChat ==
    (engine = "backend" /\ last.node = "execute"
        /\ last.outcome \in {"code_fail", "parse_fail"}
        /\ state.next_node = "execute") =>
            \A i \in 1..Len(sent) : sent[i].type # "chat"

\* C16 (store immutability): no step removes a key of store._db or changes
\* the bytes stored under a key.
C16_StoreImmutable ==
    [][/\ Len(db') >= Len(db)
       /\ \A k \in 1..Len(db) : db'[k] = db[k]]_vars

C16_Witness ==
    /\ Len(db) >= 3
    /\ last.node = "undo" /\ last.outcome = "popped"
    /\ db[2] # db[1]
    /\ db[3] = db[1]

\* C17 (deadline): a session whose Code Runner call does not return is not
\* blocked forever: it eventually gets out of the call and reaches
\* human_input.
C17_HangIsBounded ==
    (pc = "hung") ~> (pc # "hung" /\ state.next_node = "human_input")

\* C18 (undo restores the handle): an undo step on a non-empty history pops
\* the top entry and sets work_id to a handle that existed before the step;
\* it creates no store entry.
C18_UndoRestoresHandle ==
    [][(last'.node = "undo" /\ state.history # <<>>) =>
          /\ state'.history = SubSeq(state.history, 1, Len(state.history) - 1)
          /\ HasKey(db, state'.work_id)
          /\ db' = db]_vars

\* C19 (parse failures exhaust like code failures): when a parse failure is
\* the attempt that reaches the bound, the session is left as after an
\* exhausting code failure: the error is shown in user_message, error is
\* cleared, retry_count is 0 and next_node is human_input.
C19_ParseExhaustion ==
    (Executed("parse_fail") /\ state.next_node # "execute") =>
        /\ state.next_node = "human_input"
        /\ state.retry_count = 0
        /\ state.error = None
        /\ state.user_message # <<>>
        /\ state.user_message[1] \in {"Failed after ", "Error: "}

\* C15 (atomic commit): while a handler is between the push of the undo
\* entry and the commit of the new work_id, the only step taken is its own
\* completion of execute_node: no other handler of the session moves and
\* the registry is untouched, whatever messages are waiting.
C15_AtomicCommit ==
    [][\A c \in DOMAIN conns :
          conns[c].pos = "pushed" =>
              /\ last'.conn = c /\ last'.node = "execute"
              /\ conns'[c].pos # "pushed"
              /\ \A d \in DOMAIN conns \ {c} : conns'[d] = conns[d]
              /\ sessions' = sessions]_vars

C15_Witness ==
    /\ pc = "peers"
    /\ \E c, d \in DOMAIN conns :
          /\ c # d
          /\ conns[c].pos = "pushed" /\ loop = c
          /\ conns[d].pos = "run"
          /\ conns[d].sid = conns[c].sid

\* the registry entries and store entries a session refers to
KeysOf(sid) ==
    {sessions[sid].work_id, sessions[sid].raw_id}
    \cup UNION {{conns[d].st.work_id, conns[d].st.raw_id} :
                   d \in {e \in DOMAIN conns : conns[e].sid = sid}}

\* C20 (independent sessions): a step taken for one session leaves the
\* handler state of every other session (work_id, raw_id, history,
\* retry_count, error, next_node), its registry entry and every store entry
\* it refers to as they were.
C20_SessionsIndependent ==
    [][\A sid \in 1..Len(sessions) :
          (last'.conn # sid) =>
              /\ sessions'[sid] = sessions[sid]
              /\ \A d \in DOMAIN conns :
                    conns[d].sid = sid => conns'[d] = conns[d]
              /\ \A k \in KeysOf(sid) :
                    HasKey(db, k) => (HasKey(db', k) /\ db'[k] = db[k])]_vars

C20_Witness ==
    /\ pc = "sessions"
    /\ last.node = "execute" /\ last.outcome = "commit"
    /\ \E d \in DOMAIN conns :
          /\ d # last.conn
          /\ conns[d].pos # "closed"
          /\ conns[d].sid # conns[last.conn].sid
          /\ conns[d].st.history # <<>>

\* C21 (valid handle): whenever next_node is not "upload", work_id is
\* non-empty and is a key of the store, whatever execute outcomes, undos and
\* exports came before.
C21_WorkIdValid ==
    state.next_node # "upload" =>
        state.work_id # NoId /\ HasKey(db, state.work_id)

C21_Witness ==
    /\ last.node = "export" /\ last.outcome = "saved"
    /\ state.history # <<>>
    /\ state.work_id > state.raw_id
    /\ HasKey(db, state.work_id)

\* C22 (store round trip): in every store the engine can reach, writing a
\* blob returns a key that was not in the store, reading that key returns
\* the blob, and the entries already stored are as they were; write_df
\* stores the dataframe's parquet bytes under a new key and get_df reads the
\* dataframe back from those bytes.
Blobs == {to_parquet(df) : df \in DataFrames}

C23_AdapterMessages ==
    [][engine = "backend" =>
          /\ (last'.node = "receive" /\ last'.outcome = "export")
                => state'.next_node = "export"
          /\ last'.node = "eda"
                => (sent' # <<>> /\ sent'[1] = Stats(state'.user_message))
          /\ last'.node \in {"execute", "undo", "export"}
                => sent' = <<Chat(state'.user_message)>>]_vars

\* C24 (error cleared): after every step that is not a retry, i.e. an
\* execute_node step that leaves execute (answer, clarify, commit or
\* exhausted retries) and every undo and export step, error is None.
C24_ErrorCleared ==
    (\/ last.node = "execute" /\ last.outcome # "raise"
            /\ state.next_node # "execute"
     \/ last.node \in {"undo", "export"}) => state.error = None

\* C25 (shared retry counter): for one user message, however parse failures
\* and Code Runner failures alternate, execute_node runs at most MAX_RETRIES
\* times before control is back at human_input: no further attempt is
\* pending once MAX_RETRIES attempts were made.
C25_SharedRetryBound ==
    /\ turn.attempts <= MAX_RETRIES
    /\ state.next_node = "execute" => turn.attempts < MAX_RETRIES

C25_Witness ==
    /\ Executed("code_fail")
    /\ turn.attempts = MAX_RETRIES
    /\ turn.streak = -1
    /\ state.next_node = "human_input"

\* the prompt execute_node builds when it is called in the current state
Prompt ==
    IF engine = "model" THEN M_build_prompt(state, db)
    ELSE B_build_prompt(state, db)

\* C26 (retry context): whenever an execute_node call is pending, the prompt
\* it builds holds the prior error and the retry number exactly when the
\* call is a retry of the current request; the first call for a new user
\* message has neither, whatever happened in earlier turns.
C26_RetryContext ==
    (engine \in {"model", "backend"} /\ state.next_node = "execute") =>
        /\ turn.attempts = 0 => (Prompt.error = <<>> /\ Prompt.retry = <<>>)
        /\ turn.attempts > 0 => (Prompt.error # <<>> /\ Prompt.retry # <<>>)

\* C27 (pending request kept): a failed execute_node attempt that leads to
\* a retry leaves user_message as it was, so the prompt of the retry holds
\* the same user request as the prompt of the first attempt.
C27_RequestKept ==
    [][(engine \in {"model", "backend"} /\ last'.node = "execute"
            /\ state'.next_node = "execute") =>
          /\ state'.user_message = state.user_message
          /\ IF engine = "model"
             THEN M_build_prompt(state', db').user = M_build_prompt(state, db).user
             ELSE B_build_prompt(state', db').user = B_build_prompt(state, db).user]_vars

Committed(l) == l.node \in {"execute", "repl_execute"} /\ l.outcome = "commit"

C29_AnalyzeAfterChange ==
    [][/\ (Committed(last) \/ last.node = "undo") =>
             /\ last'.node = "eda"
             /\ state'.next_node \in {"human_input", "upload"}
             /\ state'.user_message[1] = "Shape: "
             /\ state'.user_message[2] = ToString(get_df(db, state.work_id).rows)
             /\ engine = "backend" => sent'[1] = Stats(state'.user_message)
       /\ Committed(last') =>
             /\ ~HasKey(db, state'.work_id) /\ HasKey(db', state'.work_id)
             /\ state'.error = None
             /\ engine # "gptcode" => state'.retry_count = 0]_vars

C31_OneLineage ==
    \A c \in Conns : \A e \in Conns :
        (/\ conns[c].pos = "recv" /\ conns[e].pos = "recv"
         /\ conns[c].sid = conns[e].sid)
        => /\ conns[c].st.work_id = conns[e].st.work_id
           /\ conns[c].st.history = conns[e].st.history

\* ---------------------------------------------------------------------------
\* C32: a NotFound on the store aborts only the operation that hit it: an
\* execute_node step with a code proposal, or an export_node step, taken
\* while work_id is not a key of the store leaves work_id, raw_id, history,
\* retry_count and error as they were before the step.
C32_NotFoundAborts ==
    [][(/\ engine = "model"
        /\ ~HasKey(db, state.work_id)
        /\ \/ last'.node = "execute" /\ last'.outcome = "not_found"
           \/ last'.node = "export")
       => /\ state'.work_id = state.work_id
          /\ state'.raw_id = state.raw_id
          /\ state'.history = state.history
          /\ state'.retry_count = state.retry_count
          /\ state'.error = state.error]_vars

\* ---------------------------------------------------------------------------
\* C33: undo stack accounting, step by step for one AgentState.  An
\* execute_node step whose proposal parsed as code (the run succeeding or
\* failing) appends exactly one entry, whose snapshot is the bytes stored
\* under work_id before the step, taken before work_id is reassigned (the
\* bytes under the old work_id stay in the store); an undo on a non-empty
\* stack removes exactly the top entry; every other step (answer, clarify,
\* parse failure, eda, export, routing, undo on an empty stack) leaves the
\* stack as it is.  With the empty stack of a new AgentState this gives
\* Len(history) = code attempts - undos on a non-empty stack.
C33_UndoAccounting ==
    [][(engine \in {"model", "backend"} /\ last'.node # "disconnect") =>
         CASE last'.node = "execute" /\ last'.outcome \in {"commit", "code_fail"} ->
                 /\ Len(state'.history) = Len(state.history) + 1
                 /\ SubSeq(state'.history, 1, Len(state.history)) = state.history
                 /\ state'.history[Len(state'.history)].snapshot = db[state.work_id]
                 /\ db'[state.work_id] = db[state.work_id]
                 /\ last'.outcome = "commit" => state'.work_id # state.work_id
                 /\ last'.outcome = "code_fail" => state'.work_id = state.work_id
           [] last'.node = "undo" /\ last'.outcome = "popped" ->
                 /\ state.history # <<>>
                 /\ state'.history = SubSeq(state.history, 1, Len(state.history) - 1)
           [] OTHER -> state'.history = state.history]_vars

\* a failed code attempt after a commit: two entries, the uploaded bytes
\* below the bytes of the committed dataset, which is still the working one
C33_Witness ==
    /\ Executed("code_fail")
    /\ Len(state.history) = 2
    /\ state.history[1].snapshot = db[state.raw_id]
    /\ state.history[2].snapshot = db[state.work_id]
    /\ state.work_id # state.raw_id
    /\ db[state.work_id] # db[state.raw_id]

\* ---------------------------------------------------------------------------
\* C34: multi-level undo is LIFO.  With commits only (no failed attempt),
\* every undo on a non-empty stack makes the content of work_id the version
\* that was current before the newest commit not yet undone, so n undos
\* after n commits walk the versions back in reverse order and end with
\* bytes equal to those under raw_id; an undo when no commit is left to
\* undo reports "Nothing to undo" and changes neither work_id, raw_id,
\* history nor the store.
C34_UndoIsLifo ==
    [][last'.node = "undo" =>
         LET vs == lineage.versions
         IN  IF Len(vs) > 1
             THEN /\ last'.outcome = "popped"
                  /\ db'[state'.work_id] = vs[Len(vs) - 1]
                  /\ Len(state'.history) = Len(vs) - 2
                  /\ Len(vs) = 2 => db'[state'.work_id] = db'[state'.raw_id]
                  /\ state'.raw_id = state.raw_id
             ELSE /\ last'.outcome = "empty"
                  /\ Contains(state'.user_message, <<"Nothing to undo.">>)
                  /\ state'.work_id = state.work_id
                  /\ state'.raw_id = state.raw_id
                  /\ state'.history = state.history
                  /\ db' = db
                  /\ db[state.work_id] = db[state.raw_id]]_vars

\* MaxHist commits, the last two of different content, then MaxHist undos
\* and one more: the content is that of the upload again
C34_Witness ==
    /\ last.node = "undo" /\ last.outcome = "empty"
    /\ lineage.commits = MaxHist
    /\ lineage.undos = MaxHist + 1
    /\ Len(db) = 2 * MaxHist + 1
    /\ db[MaxHist + 1] # db[MaxHist]
    /\ db[state.work_id] = db[state.raw_id]
    /\ state.work_id # state.raw_id

\* ---------------------------------------------------------------------------
\* C35: routing precedence of model.py's human_input_node for a non-empty
\* line: a line with "undo" in it goes to Undo whatever else it holds;
\* otherwise a line with "export" or "save" in it goes to Export; otherwise
\* a line that is exactly "exit" or "quit" (in any case) goes to END; every
\* other line goes to Execute; and each of them sets retry_count to 0 and
\* error to None.  The node the graph runs next is the one routed to.
Word_undo_in(cmd)   == Contains(cmd, <<"u","n","d","o">>)
Word_export_in(cmd) == Contains(cmd, <<"e","x","p","o","r","t">>)
                       \/ Contains(cmd, <<"s","a","v","e">>)
Word_quit_is(cmd)   == cmd = <<"e","x","i","t">> \/ cmd = <<"q","u","i","t">>

C35_RoutingPrecedence ==
    [][(last'.node = "human_input" /\ Strip(last'.msg) # <<>>) =>
         LET cmd == Lower(Strip(last'.msg))
         IN  /\ Word_undo_in(cmd) => state'.next_node = "undo"
             /\ (~Word_undo_in(cmd) /\ Word_export_in(cmd))
                   => state'.next_node = "export"
             /\ (~Word_undo_in(cmd) /\ ~Word_export_in(cmd) /\ Word_quit_is(cmd))
                   => state'.next_node = "END"
             /\ (~Word_undo_in(cmd) /\ ~Word_export_in(cmd) /\ ~Word_quit_is(cmd))
                   => state'.next_node = "execute"
             /\ pc' = state'.next_node
             /\ state'.retry_count = 0
             /\ state'.error = None]_vars

\* the second line read is "export undo", after a request whose proposals
\* failed to parse MAX_RETRIES times: it went to Undo
C35_Witness ==
    /\ last.node = "human_input" /\ last.msg = InExportUndo
    /\ pc = "undo" /\ state.next_node = "undo"
    /\ state.retry_count = 0 /\ state.error = None
    /\ quota.left = 0
    /\ lineage.phase = "other"

\* ---------------------------------------------------------------------------
\* C36: session registry lifecycle of api.py.  A websocket connection for a
\* session id that is not in the registry (never uploaded, or evicted by a
\* disconnect) gets the error message "bad session" and is closed: no
\* engine step runs, so no handler state, registry entry or store entry
\* changes; a connection for a registered id is served.  A disconnect evicts
\* the handler's session id, and everything in the store, the entries the
\* session referenced included, stays as it was.
C36_RegistryLifecycle ==
    [][LET c == last'.conn
       IN  /\ last'.node = "connect" =>
                \A sid \in SidsOf(c) :
                    IF sid \in 1..Len(sessions) /\ sessions[sid].present
                    THEN /\ last'.outcome = ""
                         /\ conns'[c].pos = "recv"
                         /\ conns'[c].sid = sid
                    ELSE /\ last'.outcome = "bad session"
                         /\ sent' = <<ErrorMsg(<<"bad session">>)>>
                         /\ conns' = conns
                         /\ conns[c].pos = "closed"
                         /\ db' = db
                         /\ sessions' = sessions
           /\ last'.node = "disconnect" =>
                LET sid == conns[c].sid
                IN  /\ ~sessions'[sid].present
                    /\ conns'[c].pos = "closed"
                    /\ db' = db
                    /\ HasKey(db', sessions[sid].work_id)
                    /\ HasKey(db', sessions[sid].raw_id)
                    /\ HasKey(db', conns[c].st.work_id)]_vars

\* a connection refused after the session was evicted by the disconnect of
\* a handler that had committed a change: the store still holds the upload
\* and the committed dataset, and the other handler is still being served
C36_Witness ==
    /\ pc = "peers"
    /\ last.node = "connect" /\ last.outcome = "bad session"
    /\ Len(sessions) = 1 /\ ~sessions[1].present
    /\ Len(db) >= 3
    /\ \E c \in Conns : conns[c].pos = "recv" /\ conns[c].st.history # <<>>
    /\ conns[last.conn].pos = "closed"

\* ---------------------------------------------------------------------------
\* C37: modelState.AgentState.reset_to_raw, from any state, makes work_id
\* equal to raw_id, empties the undo history and leaves raw_id (and the
\* store) as they were; an undo called right after a reset is the
\* "Nothing to undo" no-op: work_id stays raw_id, the history stays empty
\* and nothing is written to the store, so no version from before the reset
\* comes back.
C37_ResetToRaw ==
    [][/\ last'.node = "reset_to_raw" =>
            /\ state'.work_id = state.raw_id
            /\ state'.raw_id = state.raw_id
            /\ state'.history = <<>>
            /\ db' = db
       /\ (last.node = "reset_to_raw" /\ last'.node = "undo") =>
            /\ last'.outcome = "empty"
            /\ state'.user_message = <<"Nothing to undo">>
            /\ state'.work_id = state.raw_id
            /\ state'.raw_id = state.raw_id
            /\ state'.history = <<>>
            /\ db' = db]_vars

\* an undo that found nothing to undo, with work_id back at raw_id while
\* the store holds a changed dataset whose bytes differ from the loaded ones
C37_Witness ==
    /\ engine = "modelstate"
    /\ last.node = "undo" /\ last.outcome = "empty"
    /\ state.user_message = <<"Nothing to undo">>
    /\ state.work_id = state.raw_id /\ state.raw_id # NoId
    /\ Len(db) = MaxKeys
    /\ db[MaxKeys] # db[state.raw_id]
    /\ state.history = <<>>

====
